---- MODULE Spec2Model ----
(***************************************************************************)
(* ArgumentsValidator of pydantic-core (src/validators/arguments.rs): the  *)
(* compiled arguments schema, and one validate call as a state machine     *)
(* over the three loops of the `process!` macro.                           *)
(*                                                                         *)
(* Python objects are records tagged by their type: [int |-> 1],           *)
(* [str |-> "a"], [raises |-> "e"].  Option<T> is a sequence of length at  *)
(* most one: None is <<>>, Some(x) is <<x>>.  Indexes are 0-based as in    *)
(* the source; TLA+ sequences are 1-based, so arguments[index] of the      *)
(* source is arguments[index + 1] here.                                    *)
(***************************************************************************)
EXTENDS Integers, Sequences, FiniteSets, TLC

(***************************************************************************)
(* Bounds of the model.                                                    *)
(***************************************************************************)
\* most items of a call: its positional values and its keyword entries together
MaxItems == 2

None == <<>>
Some(x) == <<x>>
IsSome(o) == o /= <<>>
Unwrap(o) == o[1]

PyInt(n) == [int |-> n]
PyStr(s) == [str |-> s]
\* an object on which a child validator raises something that is no list of
\* line errors (ValError::InternalErr)
PyRaiser == [raises |-> "RuntimeError"]
IsPyStr(o) == DOMAIN o = {"str"}
IsPyInt(o) == DOMAIN o = {"int"}

SeqsUpTo(S, n) == UNION {[1..k -> S] : k \in 0..n}

(***************************************************************************)
(* Locations and line errors.                                              *)
(***************************************************************************)
\* LocItem::I(index) and LocItem::S(key)
LocI(i) == [index |-> i]
LocS(s) == [key |-> s]

\* a location item that takes every key for text
as_loc_item_text(obj) == IF IsPyStr(obj) THEN LocS(obj.str) ELSE LocS("7")

\* AsLocItem for a python object: a str gives its text, an int its value
as_loc_item(obj) == IF IsPyStr(obj) THEN LocS(obj.str) ELSE LocI(obj.int)

\* ValLineError::new_with_loc(kind, input, loc)
new_with_loc(kind, input_value, loc) ==
    [kind |-> kind, loc |-> <<loc>>, input |-> input_value]

\* ValLineError::new(kind, input): no location yet
new_line_error(kind, input_value) ==
    [kind |-> kind, loc |-> <<>>, input |-> input_value]

\* err.with_outer_location(loc): the outer item goes in front of the path
with_outer_location(err, loc_item) ==
    [err EXCEPT !.loc = <<loc_item>> \o @]

\* err.with_kind(kind)
with_kind(err, kind) == [err EXCEPT !.kind = kind]

\* the child's line errors taken last to first
MapOuter_reversed(line_errors, loc_item) ==
    [k \in 1..Len(line_errors) |->
        with_outer_location(line_errors[Len(line_errors) + 1 - k], loc_item)]

MapOuter(line_errors, loc_item) ==
    [k \in 1..Len(line_errors) |-> with_outer_location(line_errors[k], loc_item)]

\* ValResult of a child validator or of validate itself
Ok(v) == [tag |-> "Ok", value |-> v]
LineErrors(es) == [tag |-> "LineErrors", errors |-> es]
InternalErr(e) == [tag |-> "InternalErr", error |-> e]

(***************************************************************************)
(* The schema document and ArgumentsValidator::build.                      *)
(***************************************************************************)
Modes == {"positional_only", "positional_or_keyword", "keyword_only"}

\* names of the declared arguments by position, and the alias an argument's
\* schema may carry
ArgNames == <<"a", "b">>
\* only the first argument's schema may carry an alias
AliasOf(name) == IF name = "a" THEN {None, Some("A")} ELSE {None}
\* the default value an argument's schema may carry (b's default is 5)
DefaultOf(name) == IF name = "a" THEN PyInt(4) ELSE PyInt(5)
\* the zero-argument callable an argument's schema may carry, and its result
FactoryOf(name) == [factory |-> name]
call0(default_factory) == [made_by |-> default_factory.factory]

\* LookupKey::from_string(name): one key.  LookupKey::from_py(alias, alt_alias):
\* the alias, then the name when populate_by_name gives one.  The keys are
\* tried in this order.
LookupKey_from_string(name) == <<name>>
LookupKey_from_py(alias, alt_alias) == <<alias>> \o alt_alias

\* arguments.rs:57
positional_of(mode) == mode = "positional_only" \/ mode = "positional_or_keyword"

\* arguments.rs:64
accepts_keyword(mode) == mode = "keyword_only" \/ mode = "positional_or_keyword"

\* a build that keys the keyword output by the alias
kwarg_key_of_alias(arg, name) == IF IsSome(arg.alias) THEN arg.alias ELSE Some(name)

\* arguments.rs:72: the keyword output key is the interned name
kwarg_key_of(arg, name) == Some(name)

\* one iteration of the loop of build (arguments.rs:52-99) without the
\* default checks: the Argument made from the argument's schema `arg`
build_argument(arg, populate_by_name) ==
    LET name == arg.name
        mode == arg.mode
        kw == accepts_keyword(mode)
    IN  [ positional      |-> positional_of(mode),
          name            |-> name,
          kw_lookup_key   |-> IF kw
                              THEN IF IsSome(arg.alias)
                                   THEN Some(LookupKey_from_py(Unwrap(arg.alias),
                                             IF populate_by_name THEN Some(name) ELSE None))
                                   ELSE Some(LookupKey_from_string(name))
                              ELSE None,
          kwarg_key       |-> IF kw THEN kwarg_key_of(arg, name) ELSE None,
          default         |-> arg.default,
          default_factory |-> arg.default_factory,
          \* the compiled child validator, named after its argument
          validator       |-> name ]

\* the loop of build over arguments_schema[k..], carrying the loop's locals
RECURSIVE build_loop(_, _, _, _, _, _)
build_loop(arguments_list, populate_by_name, k, arguments, positional_args_count, had_default_arg) ==
    IF k > Len(arguments_list)
    THEN [ok |-> TRUE, arguments |-> arguments,
          positional_args_count |-> positional_args_count]
    ELSE LET arg == arguments_list[k]
             arg_index == k - 1
             count == IF positional_of(arg.mode) THEN arg_index + 1 ELSE positional_args_count
             has_default == IsSome(arg.default)
             has_factory == IsSome(arg.default_factory)
         IN  IF has_default /\ has_factory
             THEN [ok |-> FALSE,
                   error |-> "'default' and 'default_factory' cannot be used together"]
             ELSE IF had_default_arg /\ ~has_default /\ ~has_factory
             THEN [ok |-> FALSE, error |-> "Non-default argument follows default argument"]
             ELSE build_loop(arguments_list, populate_by_name, k + 1,
                             Append(arguments, build_argument(arg, populate_by_name)),
                             count,
                             had_default_arg \/ has_default \/ has_factory)

\* ArgumentsValidator::build(schema): the validator, or the build error
build(schema_doc) ==
    LET r == build_loop(schema_doc.arguments_schema, schema_doc.populate_by_name,
                        1, <<>>, 0, FALSE)
    IN  IF ~r.ok THEN r
        ELSE [ok |-> TRUE,
              arguments |-> r.arguments,
              positional_args_count |-> r.positional_args_count,
              var_args_validator |-> IF schema_doc.var_args_schema
                                     THEN Some("var_args") ELSE None,
              var_kwargs_validator |-> IF schema_doc.var_kwargs_schema
                                       THEN Some("var_kwargs") ELSE None]

\* the schemas of one argument at position k (1-based) the model draws from
DefaultKinds == {"none", "default", "default_factory", "both"}
ArgSchemas(k) ==
    LET name == ArgNames[k] IN
    { [ name |-> name, mode |-> m,
        alias |-> al,
        default |-> IF d \in {"default", "both"} THEN Some(DefaultOf(name)) ELSE None,
        default_factory |-> IF d \in {"default_factory", "both"}
                            THEN Some(FactoryOf(name)) ELSE None ] :
      m \in Modes, al \in AliasOf(name), d \in DefaultKinds }

ArgLists == UNION { { s \in [1..n -> UNION {ArgSchemas(k) : k \in 1..n}] :
                        \A k \in 1..n : s[k] \in ArgSchemas(k) } : n \in 0..Len(ArgNames) }

SchemaDocs ==
    { [ arguments_schema |-> al, populate_by_name |-> p,
        var_args_schema |-> va, var_kwargs_schema |-> vk ] :
      al \in ArgLists, p \in BOOLEAN, va \in BOOLEAN, vk \in BOOLEAN }

(***************************************************************************)
(* Call inputs.  A python dict (and a JSON object) is the sequence of its  *)
(* <<key, value>> entries in iteration order, with pairwise distinct keys. *)
(***************************************************************************)
Values == {PyInt(1), PyStr("x"), PyRaiser}
Keys == {PyStr("a"), PyStr("b"), PyStr("A"), PyInt(7)}
\* the entries a dict is made of; the value under a key that is no str is
\* never read, so one value stands for all
Entries == { e \in Keys \X Values : IsPyStr(e[1]) \/ e[2] = PyInt(1) }

Dicts == { d \in SeqsUpTo(Entries, MaxItems) :
             \A i, j \in 1..Len(d) : i /= j => d[i][1] /= d[j][1] }
Tuples == SeqsUpTo(Values, MaxItems)

\* ArgsKwargs::py_new (argument_markers.rs:31-39): empty kwargs are stored as None
ArgsKwargs_new(args, kwargs) ==
    [ kind |-> "ArgsKwargs", args |-> args,
      kwargs |-> IF IsSome(kwargs) /\ Unwrap(kwargs) /= <<>> THEN kwargs ELSE None ]

PyInputs ==
    { [kind |-> "dict", items |-> d] : d \in Dicts }
    \cup UNION { { ArgsKwargs_new(t, Some(d)) :
                      d \in {e \in Dicts : Len(t) + Len(e) <= MaxItems} } : t \in Tuples }
    \cup { [kind |-> k, items |-> t] : k \in {"tuple", "list"}, t \in Tuples }
    \cup { [kind |-> "int", int |-> 1] }

\* Input::validate_args for a python object (input_python.rs:143-157)
py_validate_args(obj) ==
    CASE obj.kind = "dict" -> Ok([args |-> None, kwargs |-> Some(obj.items)])
      [] obj.kind = "ArgsKwargs" -> Ok([args |-> Some(obj.args), kwargs |-> obj.kwargs])
      [] obj.kind = "tuple" -> Ok([args |-> Some(obj.items), kwargs |-> None])
      [] obj.kind = "list" -> Ok([args |-> Some(obj.items), kwargs |-> None])
      [] OTHER -> LineErrors(<<new_line_error("ArgumentsType", obj)>>)

\* the positional sequence and the keyword entries of a python call input
CallArgs(obj) ==
    CASE obj.kind = "ArgsKwargs" -> obj.args
      [] obj.kind \in {"tuple", "list"} -> obj.items
      [] OTHER -> <<>>
CallKwargs(obj) ==
    CASE obj.kind = "ArgsKwargs" -> IF IsSome(obj.kwargs) THEN Unwrap(obj.kwargs) ELSE <<>>
      [] obj.kind = "dict" -> obj.items
      [] OTHER -> <<>>

\* a call can be written as a document when its keys are strings and its
\* values are document values
IsDocumentCall(obj) ==
    /\ obj.kind \in {"dict", "ArgsKwargs", "tuple", "list"}
    /\ \A k \in 1..Len(CallKwargs(obj)) :
          IsPyStr(CallKwargs(obj)[k][1]) /\ CallKwargs(obj)[k][2] /= PyRaiser
    /\ \A k \in 1..Len(CallArgs(obj)) : CallArgs(obj)[k] /= PyRaiser

\* the same call as the parsed document {"args": [...], "kwargs": {...}};
\* the keys of a JSON object are plain strings
ToDocument(obj) ==
    [ kind |-> "json",
      args |-> CallArgs(obj),
      kwargs |-> [k \in 1..Len(CallKwargs(obj)) |->
                     <<CallKwargs(obj)[k][1].str, CallKwargs(obj)[k][2]>>] ]

\* Input::validate_args for a document: both parts are present
json_validate_args(doc) == Ok([args |-> Some(doc.args), kwargs |-> Some(doc.kwargs)])

(***************************************************************************)
(* The fetch macros of the two code paths (arguments.rs:117-139) and the   *)
(* lookups of LookupKey.                                                   *)
(***************************************************************************)
\* a get that is off by one
py_get_shifted(obj, index) ==
    IF index + 1 < Len(obj) THEN Some(obj[index + 2]) ELSE None

\* py_get!: obj.get_item(index).ok()
py_get(obj, index) == IF index < Len(obj) THEN Some(obj[index + 1]) ELSE None

\* a get that always reads the first element
json_get_first(obj, index) ==
    IF index < Len(obj) THEN Some(obj[1]) ELSE None

\* json_get!: obj.get(index)
json_get(obj, index) == IF index < Len(obj) THEN Some(obj[index + 1]) ELSE None

\* py_slice!: obj.get_slice(from, to)
py_slice(obj, from, to) == SubSeq(obj, from + 1, to)

\* json_slice!: obj[from..to]
json_slice(obj, from, to) == SubSeq(obj, from + 1, to)

\* the entry of a python dict under the str key `key`, if any
py_dict_get_item(dict, key) ==
    LET hits == {k \in 1..Len(dict) : dict[k][1] = PyStr(key)}
    IN  IF hits = {} THEN None ELSE Some(dict[CHOOSE k \in hits : TRUE][2])

\* the entry of a JSON object under `key`, if any
json_object_get(object, key) ==
    LET hits == {k \in 1..Len(object) : object[k][1] = key}
    IN  IF hits = {} THEN None ELSE Some(object[CHOOSE k \in hits : TRUE][2])

\* LookupKey::py_get_item(dict): the first key of the lookup key the dict
\* holds, with its value: Some(<<key, value>>) or None
RECURSIVE LookupKey_py_get_item(_, _)
LookupKey_py_get_item(lookup_key, dict) ==
    IF lookup_key = <<>> THEN None
    ELSE LET v == py_dict_get_item(dict, Head(lookup_key))
         IN  IF IsSome(v) THEN Some(<<Head(lookup_key), Unwrap(v)>>)
             ELSE LookupKey_py_get_item(Tail(lookup_key), dict)

\* LookupKey::json_get(object)
RECURSIVE LookupKey_json_get(_, _)
LookupKey_json_get(lookup_key, object) ==
    IF lookup_key = <<>> THEN None
    ELSE LET v == json_object_get(object, Head(lookup_key))
         IN  IF IsSome(v) THEN Some(<<Head(lookup_key), Unwrap(v)>>)
             ELSE LookupKey_json_get(Tail(lookup_key), object)

\* raw_key.strict_str(py): a python key passes when it is a str; a JSON key
\* is a string already
py_strict_str(raw_key) ==
    IF IsPyStr(raw_key) THEN Ok(raw_key.str)
    ELSE LineErrors(<<new_line_error("StrType", raw_key)>>)
json_strict_str(raw_key) == Ok(raw_key)

\* raw_key.as_loc_item(py) on the two paths
json_as_loc_item(raw_key) == LocS(raw_key)

(***************************************************************************)
(* Child validators.  The compiled child is named by `validator`; what it  *)
(* answers depends on the value only: an int is accepted, a str is         *)
(* rejected with two line errors, and on PyRaiser the child raises.        *)
(***************************************************************************)
ChildValidate(validator, value) ==
    CASE IsPyInt(value) -> Ok([validated_by |-> validator, value |-> value])
      [] IsPyStr(value) ->
            LineErrors(<< new_line_error("IntType", value),
                          new_with_loc("IntParsing", value, LocS("inner")) >>)
      [] OTHER -> InternalErr(value.raises)

\* PyDict::set_item
set_item(dict, key, value) ==
    [k \in DOMAIN dict \cup {key} |-> IF k = key THEN value ELSE dict[k]]

(***************************************************************************)
(* One validate call (arguments.rs:142-317).                               *)
(***************************************************************************)
VARIABLES
    self,           \* the compiled ArgumentsValidator
    input,          \* the input of the call (a python object or a document)
    backing,        \* "py": GenericArguments::Py, "json": GenericArguments::Json
    pc,             \* "start", "arguments", "var_args", "kwargs", "return", "done"
    index,          \* the index of the loop the call is in
    args,           \* the GenericArguments: [args, kwargs], both Option
    output_args,    \* Vec<PyObject>
    output_kwargs,  \* PyDict: key -> value
    errors,         \* Vec<ValLineError>
    used_kwargs,    \* AHashSet<&str>
    result,         \* None until the call returns, then Some(ValResult)
    calls,          \* history: the child validator invocations <<validator, value>>
    factory_calls,  \* history: the default factories invoked, by argument index
    steps,          \* history: the loop iterations run, as <<loop, index>>
    py_result       \* the result of the call on the python input, kept for the document run

argsVars == << self, input, backing, pc, index, args, output_args, output_kwargs,
               errors, used_kwargs, result, calls, factory_calls, steps, py_result >>

\* one build call (arguments.rs:37-114)
VARIABLES
    schema,         \* the schema document handed to ArgumentsValidator::build
    built           \* None until build returns, then Some(its result)

buildVars == << schema, built >>

\* the per-call state of the serializers (serializers/extra.rs).  Every Extra
\* and ExtraOwned owns a CollectWarnings and a SerRecursionGuard; the memory
\* that holds them is a cell of `collectors` and a cell of `guards`, and the
\* object names its cells by their addresses.
VARIABLES
    objects,        \* the identities (addresses) of the python values being serialized
    extras,         \* the Extra and ExtraOwned objects made so far
    guards,         \* memory: the RecursionInfo cells
    collectors,     \* memory: the CollectWarnings cells
    stacks,         \* history: per Extra, the ids its adds returned and that are not yet popped
    recorded,       \* history: per top-level call, the warnings recorded, in order
    emitted,        \* per top-level call: None until final_check ran, then Some(what it emitted)
    last            \* history: the last operation and its outcome

serVars == << objects, extras, guards, collectors, stacks, recorded, emitted, last >>

\* one build call of the typed-dict serializer (type_serializers/typed_dict.rs)
VARIABLES
    td_schema,      \* the schema handed to TypedDictBuilder::build
    td_result,      \* None until build returns, then Some(its result)
    td_order        \* None until the built fields are enumerated, then Some(the keys in that order)

tdVars == << td_schema, td_result, td_order >>

\* one scalar coercion of a native value (input/input_python.rs), called
\* with strict = true and with strict = false
VARIABLES
    coerce_obj,     \* the python object the coercion is called on
    coerce_call,    \* the coercion called and its other parameters
    strict_out,     \* None until the strict call returns, then Some(its ValResult)
    lax_out         \* None until the lax call returns, then Some(its ValResult)

coerceVars == << coerce_obj, coerce_call, strict_out, lax_out >>

vars == << argsVars, buildVars, serVars, tdVars, coerceVars >>

\* the variables outside each component
notArgs == << buildVars, serVars, tdVars, coerceVars >>
notBuild == << argsVars, serVars, tdVars, coerceVars >>
notSer == << argsVars, buildVars, tdVars, coerceVars >>
notTd == << argsVars, buildVars, serVars, coerceVars >>
notCoerce == << argsVars, buildVars, serVars, tdVars >>

\* the variables of the calls that are not running
ArgsIdle ==
    /\ self = None /\ input = None /\ backing = None /\ pc = None /\ index = None
    /\ args = None /\ output_args = None /\ output_kwargs = None /\ errors = None
    /\ used_kwargs = None /\ result = None /\ calls = None /\ factory_calls = None
    /\ steps = None /\ py_result = None
BuildIdle == schema = None /\ built = None
SerIdle ==
    /\ objects = None /\ extras = None /\ guards = None /\ collectors = None
    /\ stacks = None /\ recorded = None /\ emitted = None /\ last = None
TdIdle == td_schema = None /\ td_result = None /\ td_order = None
CoerceIdle ==
    coerce_obj = None /\ coerce_call = None /\ strict_out = None /\ lax_out = None
NotArgsIdle == BuildIdle /\ SerIdle /\ TdIdle /\ CoerceIdle
NotBuildIdle == ArgsIdle /\ SerIdle /\ TdIdle /\ CoerceIdle
NotSerIdle == ArgsIdle /\ BuildIdle /\ TdIdle /\ CoerceIdle
NotTdIdle == ArgsIdle /\ BuildIdle /\ SerIdle /\ CoerceIdle
NotCoerceIdle == ArgsIdle /\ BuildIdle /\ SerIdle /\ TdIdle

Validators == { build(doc) : doc \in { d \in SchemaDocs : build(d).ok } }

Init ==
    /\ self \in Validators
    /\ input \in PyInputs
    /\ backing = "py"
    /\ pc = "start"
    /\ index = 0
    /\ args = None
    /\ output_args = <<>>
    /\ output_kwargs = <<>>
    /\ errors = <<>>
    /\ used_kwargs = {}
    /\ result = None
    /\ calls = <<>>
    /\ factory_calls = <<>>
    /\ steps = <<>>
    /\ py_result = None
    /\ NotArgsIdle

\* the macros and methods process! is instantiated with (arguments.rs:308-311)
get_macro(obj, i) == IF backing = "py" THEN py_get(obj, i) ELSE json_get(obj, i)
slice_macro(obj, from, to) ==
    IF backing = "py" THEN py_slice(obj, from, to) ELSE json_slice(obj, from, to)
get_method(lookup_key, kwargs) ==
    IF backing = "py" THEN LookupKey_py_get_item(lookup_key, kwargs)
    ELSE LookupKey_json_get(lookup_key, kwargs)
strict_str(raw_key) ==
    IF backing = "py" THEN py_strict_str(raw_key) ELSE json_strict_str(raw_key)
key_loc_item(raw_key) ==
    IF backing = "py" THEN as_loc_item(raw_key) ELSE json_as_loc_item(raw_key)

\* where the call goes when a loop is over: the next loop that has something
\* to do, or the return
EnterKwargs(a) ==
    IF IsSome(a.kwargs) /\ Len(Unwrap(a.kwargs)) > 0
    THEN [pc |-> "kwargs", index |-> 0]
    ELSE [pc |-> "return", index |-> 0]
EnterVarArgs(a) ==
    IF IsSome(a.args) /\ Len(Unwrap(a.args)) > self.positional_args_count
    THEN [pc |-> "var_args", index |-> 0]
    ELSE EnterKwargs(a)
EnterArguments(a) ==
    IF Len(self.arguments) > 0
    THEN [pc |-> "arguments", index |-> 0]
    ELSE EnterVarArgs(a)

\* a loop over the declared arguments that stops after the first
NextArgument_first_only == EnterVarArgs(Unwrap(args))

NextArgument ==
    IF index + 1 < Len(self.arguments)
    THEN [pc |-> "arguments", index |-> index + 1]
    ELSE EnterVarArgs(Unwrap(args))
NextKwarg ==
    IF index + 1 < Len(Unwrap(Unwrap(args).kwargs))
    THEN [pc |-> "kwargs", index |-> index + 1]
    ELSE [pc |-> "return", index |-> 0]

Goto(to) == pc' = to.pc /\ index' = to.index

\* `return Err(err)` out of the loops: the call is over
ReturnErr(err) ==
    /\ result' = Some(err)
    /\ pc' = "done"
    /\ index' = 0

\* arguments.rs:150-155: let args = input.validate_args()?; the locals start empty
Validate ==
    /\ pc = "start"
    /\ LET r == IF backing = "py" THEN py_validate_args(input)
                ELSE json_validate_args(input)
       IN  IF r.tag = "Ok"
           THEN /\ args' = Some(r.value)
                /\ Goto(EnterArguments(r.value))
                /\ result' = result
           ELSE /\ args' = args
                /\ ReturnErr(r)
    /\ UNCHANGED << self, input, backing, output_args, output_kwargs, errors,
                    used_kwargs, calls, factory_calls, steps, py_result >>

\* arguments.rs:161-175: the positional and the keyword value of the argument
\* at `index`
argument_info == self.arguments[index + 1]
pos_value ==
    IF IsSome(Unwrap(args).args) /\ argument_info.positional
    THEN get_macro(Unwrap(Unwrap(args).args), index)
    ELSE None
kw_lookup ==
    IF IsSome(Unwrap(args).kwargs) /\ IsSome(argument_info.kw_lookup_key)
    THEN get_method(Unwrap(argument_info.kw_lookup_key), Unwrap(Unwrap(args).kwargs))
    ELSE None
kw_value == IF IsSome(kw_lookup) THEN Some(Unwrap(kw_lookup)[2]) ELSE None
\* arguments.rs:171: used_kwargs.insert(key)
used_kwargs_after_lookup ==
    IF IsSome(kw_lookup) THEN used_kwargs \cup {Unwrap(kw_lookup)[1]} ELSE used_kwargs

\* a child's failure that is no list of line errors is dropped and the call
\* goes on
ChildOutcome_going_on(r, loc_item, new_output_args, new_output_kwargs, next) ==
    IF r.tag = "Ok"
    THEN /\ output_args' = new_output_args
         /\ output_kwargs' = new_output_kwargs
         /\ errors' = errors
         /\ result' = result
         /\ Goto(next)
    ELSE IF r.tag = "LineErrors"
    THEN /\ errors' = errors \o MapOuter(r.errors, loc_item)
         /\ UNCHANGED << output_args, output_kwargs, result >>
         /\ Goto(next)
    ELSE /\ UNCHANGED << output_args, output_kwargs, errors, result >>
         /\ Goto(next)

\* a child's line errors end the call at once
ChildOutcome_short_circuit(r, loc_item, new_output_args, new_output_kwargs, next) ==
    IF r.tag = "Ok"
    THEN /\ output_args' = new_output_args
         /\ output_kwargs' = new_output_kwargs
         /\ errors' = errors
         /\ result' = result
         /\ Goto(next)
    ELSE /\ ReturnErr(IF r.tag = "LineErrors"
                      THEN LineErrors(errors \o MapOuter(r.errors, loc_item)) ELSE r)
         /\ UNCHANGED << output_args, output_kwargs, errors >>

\* what a child's answer does to the call, common to the three places a
\* child validator is invoked: Ok(value) goes to `store`, line errors are
\* collected under `loc_item`, anything else returns at once
ChildOutcome(r, loc_item, new_output_args, new_output_kwargs, next) ==
    IF r.tag = "Ok"
    THEN /\ output_args' = new_output_args
         /\ output_kwargs' = new_output_kwargs
         /\ errors' = errors
         /\ result' = result
         /\ Goto(next)
    ELSE IF r.tag = "LineErrors"
    THEN /\ errors' = errors \o MapOuter(r.errors, loc_item)
         /\ UNCHANGED << output_args, output_kwargs, result >>
         /\ Goto(next)
    ELSE /\ ReturnErr(r)
         /\ UNCHANGED << output_args, output_kwargs, errors >>

\* both values given: the error is recorded and the positional value is
\* validated all the same
ArgMultipleValues_validating ==
    /\ pc = "arguments"
    /\ steps' = Append(steps, <<pc, index>>)
    /\ IsSome(pos_value) /\ IsSome(kw_value)
    /\ errors' = Append(errors, new_with_loc("MultipleArgumentValues", Unwrap(kw_value),
                                             LocS(argument_info.name)))
    /\ calls' = Append(calls, <<argument_info.validator, Unwrap(pos_value)>>)
    /\ used_kwargs' = used_kwargs_after_lookup
    /\ Goto(NextArgument)
    /\ UNCHANGED << self, input, backing, args, output_args, output_kwargs, result,
                    factory_calls, py_result >>

\* arguments.rs:178-184: (Some(_), Some(kw_value))
ArgMultipleValues ==
    /\ pc = "arguments"
    /\ steps' = Append(steps, <<pc, index>>)
    /\ IsSome(pos_value) /\ IsSome(kw_value)
    /\ errors' = Append(errors, new_with_loc("MultipleArgumentValues", Unwrap(kw_value),
                                             LocS(argument_info.name)))
    /\ used_kwargs' = used_kwargs_after_lookup
    /\ Goto(NextArgument)
    /\ UNCHANGED << self, input, backing, args, output_args, output_kwargs, result,
                    calls, factory_calls, py_result >>

\* a positional value whose line errors are located at the argument's name
ArgPositional_by_name ==
    /\ pc = "arguments"
    /\ steps' = Append(steps, <<pc, index>>)
    /\ IsSome(pos_value) /\ ~IsSome(kw_value)
    /\ LET r == ChildValidate(argument_info.validator, Unwrap(pos_value))
       IN  /\ calls' = Append(calls, <<argument_info.validator, Unwrap(pos_value)>>)
           /\ ChildOutcome(r, LocS(argument_info.name), Append(output_args, r.value),
                           output_kwargs, NextArgument)
    /\ used_kwargs' = used_kwargs_after_lookup
    /\ UNCHANGED << self, input, backing, args, factory_calls, py_result >>

\* arguments.rs:185-196: (Some(pos_value), None)
ArgPositional ==
    /\ pc = "arguments"
    /\ steps' = Append(steps, <<pc, index>>)
    /\ IsSome(pos_value) /\ ~IsSome(kw_value)
    /\ LET r == ChildValidate(argument_info.validator, Unwrap(pos_value))
       IN  /\ calls' = Append(calls, <<argument_info.validator, Unwrap(pos_value)>>)
           /\ ChildOutcome(r, LocI(index), Append(output_args, r.value), output_kwargs,
                           NextArgument)
    /\ used_kwargs' = used_kwargs_after_lookup
    /\ UNCHANGED << self, input, backing, args, factory_calls, py_result >>

\* arguments.rs:197-212: (None, Some(kw_value))
ArgKeyword ==
    /\ pc = "arguments"
    /\ steps' = Append(steps, <<pc, index>>)
    /\ ~IsSome(pos_value) /\ IsSome(kw_value)
    /\ LET r == ChildValidate(argument_info.validator, Unwrap(kw_value))
       IN  /\ calls' = Append(calls, <<argument_info.validator, Unwrap(kw_value)>>)
           /\ ChildOutcome(r, LocS(argument_info.name), output_args,
                           set_item(output_kwargs, Unwrap(argument_info.kwarg_key), r.value),
                           NextArgument)
    /\ used_kwargs' = used_kwargs_after_lookup
    /\ UNCHANGED << self, input, backing, args, factory_calls, py_result >>

\* a default that always goes to the positional output
PlaceDefault_positional(default) ==
    /\ output_args' = Append(output_args, default)
    /\ output_kwargs' = output_kwargs

\* arguments.rs:214-226: where a default or a factory's product goes
PlaceDefault(default) ==
    IF IsSome(argument_info.kwarg_key)
    THEN /\ output_kwargs' = set_item(output_kwargs, Unwrap(argument_info.kwarg_key), default)
         /\ output_args' = output_args
    ELSE /\ output_args' = Append(output_args, default)
         /\ output_kwargs' = output_kwargs

\* arguments.rs:213-236: (None, None)
ArgMissing ==
    /\ pc = "arguments"
    /\ steps' = Append(steps, <<pc, index>>)
    /\ ~IsSome(pos_value) /\ ~IsSome(kw_value)
    /\ IF IsSome(argument_info.default)
       THEN /\ PlaceDefault(Unwrap(argument_info.default))
            /\ UNCHANGED << errors, factory_calls >>
       ELSE IF IsSome(argument_info.default_factory)
       THEN /\ PlaceDefault(call0(Unwrap(argument_info.default_factory)))
            /\ factory_calls' = Append(factory_calls, index)
            /\ errors' = errors
       ELSE IF IsSome(argument_info.kwarg_key)
       THEN /\ errors' = Append(errors, new_with_loc("MissingKeywordArgument", input,
                                                     LocS(argument_info.name)))
            /\ UNCHANGED << output_args, output_kwargs, factory_calls >>
       ELSE /\ errors' = Append(errors, new_with_loc("MissingPositionalArgument", input,
                                                     LocI(index)))
            /\ UNCHANGED << output_args, output_kwargs, factory_calls >>
    /\ used_kwargs' = used_kwargs_after_lookup
    /\ Goto(NextArgument)
    /\ UNCHANGED << self, input, backing, args, result, calls, py_result >>

\* arguments.rs:244/258: the surplus positional value the loop is at
surplus_items ==
    slice_macro(Unwrap(Unwrap(args).args), self.positional_args_count,
                Len(Unwrap(Unwrap(args).args)))
surplus_item == surplus_items[index + 1]
\* the index within the surplus instead of the index within the call
surplus_index_relative == index

\* arguments.rs:251/262: index + self.positional_args_count
surplus_index == index + self.positional_args_count
NextVarArg ==
    IF index + 1 < Len(surplus_items)
    THEN [pc |-> "var_args", index |-> index + 1]
    ELSE EnterKwargs(Unwrap(args))

\* arguments.rs:243-256: a surplus positional value with a var-args validator
VarArgsItem ==
    /\ pc = "var_args"
    /\ steps' = Append(steps, <<pc, index>>)
    /\ IsSome(self.var_args_validator)
    /\ LET validator == Unwrap(self.var_args_validator)
           r == ChildValidate(validator, surplus_item)
       IN  /\ calls' = Append(calls, <<validator, surplus_item>>)
           /\ ChildOutcome(r, LocI(surplus_index),
                           Append(output_args, r.value), output_kwargs, NextVarArg)
    /\ UNCHANGED << self, input, backing, args, used_kwargs, factory_calls, py_result >>

\* arguments.rs:257-265: a surplus positional value without one
UnexpectedPositional ==
    /\ pc = "var_args"
    /\ steps' = Append(steps, <<pc, index>>)
    /\ ~IsSome(self.var_args_validator)
    /\ errors' = Append(errors, new_with_loc("UnexpectedPositionalArgument", surplus_item,
                                             LocI(surplus_index)))
    /\ Goto(NextVarArg)
    /\ UNCHANGED << self, input, backing, args, output_args, output_kwargs, used_kwargs,
                    result, calls, factory_calls, py_result >>

\* arguments.rs:270: the keyword entry the loop is at
raw_key == Unwrap(Unwrap(args).kwargs)[index + 1][1]
value == Unwrap(Unwrap(args).kwargs)[index + 1][2]

\* arguments.rs:271-283: the key is no string
KwInvalidKey ==
    /\ pc = "kwargs"
    /\ steps' = Append(steps, <<pc, index>>)
    /\ strict_str(raw_key).tag = "LineErrors"
    /\ LET line_errors == strict_str(raw_key).errors
       IN  errors' = errors \o
              [k \in 1..Len(line_errors) |->
                  with_kind(with_outer_location(line_errors[k], key_loc_item(raw_key)),
                            "InvalidKey")]
    /\ Goto(NextKwarg)
    /\ UNCHANGED << self, input, backing, args, output_args, output_kwargs, used_kwargs,
                    result, calls, factory_calls, py_result >>

\* arguments.rs:284: the key was consumed by a declared argument
KwUsed ==
    /\ pc = "kwargs"
    /\ steps' = Append(steps, <<pc, index>>)
    /\ strict_str(raw_key).tag = "Ok"
    /\ strict_str(raw_key).value \in used_kwargs
    /\ Goto(NextKwarg)
    /\ UNCHANGED << self, input, backing, args, output_args, output_kwargs, errors,
                    used_kwargs, result, calls, factory_calls, py_result >>

\* arguments.rs:285-294: an unconsumed key with a var-kwargs validator
KwVarKwargs ==
    /\ pc = "kwargs"
    /\ steps' = Append(steps, <<pc, index>>)
    /\ strict_str(raw_key).tag = "Ok"
    /\ strict_str(raw_key).value \notin used_kwargs
    /\ IsSome(self.var_kwargs_validator)
    /\ LET validator == Unwrap(self.var_kwargs_validator)
           key == strict_str(raw_key).value
           r == ChildValidate(validator, value)
       IN  /\ calls' = Append(calls, <<validator, value>>)
           /\ ChildOutcome(r, key_loc_item(raw_key), output_args,
                           set_item(output_kwargs, key, r.value), NextKwarg)
    /\ UNCHANGED << self, input, backing, args, used_kwargs, factory_calls, py_result >>

\* arguments.rs:295-301: an unconsumed key without one
KwUnexpected ==
    /\ pc = "kwargs"
    /\ steps' = Append(steps, <<pc, index>>)
    /\ strict_str(raw_key).tag = "Ok"
    /\ strict_str(raw_key).value \notin used_kwargs
    /\ ~IsSome(self.var_kwargs_validator)
    /\ errors' = Append(errors, new_with_loc("UnexpectedKeywordArgument", value,
                                             key_loc_item(raw_key)))
    /\ Goto(NextKwarg)
    /\ UNCHANGED << self, input, backing, args, output_args, output_kwargs, used_kwargs,
                    result, calls, factory_calls, py_result >>

\* arguments.rs:312-316
Return ==
    /\ pc = "return"
    /\ result' = IF errors /= <<>>
                 THEN Some(LineErrors(errors))
                 ELSE Some(Ok([args |-> output_args, kwargs |-> output_kwargs]))
    /\ pc' = "done"
    /\ UNCHANGED << self, input, backing, index, args, output_args, output_kwargs, errors,
                    used_kwargs, calls, factory_calls, steps, py_result >>

\* the same validator is then given the same call as a parsed document
ValidateJson ==
    /\ pc = "done"
    /\ backing = "py"
    /\ IsDocumentCall(input)
    /\ input' = ToDocument(input)
    /\ backing' = "json"
    /\ py_result' = result
    /\ pc' = "start"
    /\ index' = 0
    /\ args' = None
    /\ output_args' = <<>>
    /\ output_kwargs' = <<>>
    /\ errors' = <<>>
    /\ used_kwargs' = {}
    /\ result' = None
    /\ calls' = <<>>
    /\ factory_calls' = <<>>
    /\ steps' = <<>>
    /\ UNCHANGED << self, notArgs >>

\* a validate call leaves the other calls alone
Next ==
    \/ Validate /\ UNCHANGED notArgs
    \/ ArgMultipleValues /\ UNCHANGED notArgs
    \/ ArgPositional /\ UNCHANGED notArgs
    \/ ArgKeyword /\ UNCHANGED notArgs
    \/ ArgMissing /\ UNCHANGED notArgs
    \/ VarArgsItem /\ UNCHANGED notArgs
    \/ UnexpectedPositional /\ UNCHANGED notArgs
    \/ KwInvalidKey /\ UNCHANGED notArgs
    \/ KwUsed /\ UNCHANGED notArgs
    \/ KwVarKwargs /\ UNCHANGED notArgs
    \/ KwUnexpected /\ UNCHANGED notArgs
    \/ Return /\ UNCHANGED notArgs

Spec == Init /\ [][Next]_vars

\* validate on the python input, then on the same call as a document
SpecJson == Init /\ [][Next \/ ValidateJson]_vars

(***************************************************************************)
(* What a call supplies, read off the input itself.                        *)
(***************************************************************************)
InArgs == IF input.kind = "json" THEN input.args ELSE CallArgs(input)
\* the keyword entries with their keys as python objects
InKwargs ==
    IF input.kind = "json"
    THEN [k \in 1..Len(input.kwargs) |-> <<PyStr(input.kwargs[k][1]), input.kwargs[k][2]>>]
    ELSE CallKwargs(input)
IsCall == input.kind \in {"dict", "ArgsKwargs", "tuple", "list", "json"}
KwIndexOf(key) ==
    IF \E k \in 1..Len(InKwargs) : InKwargs[k][1] = PyStr(key)
    THEN CHOOSE k \in 1..Len(InKwargs) : InKwargs[k][1] = PyStr(key)
    ELSE 0
DeclaredIndexes == 0..(Len(self.arguments) - 1)
Declared(i) == self.arguments[i + 1]

\* the declared argument i is given a positional value
GivenPositional(i) == Declared(i).positional /\ i < Len(InArgs)
\* the keys the declared argument i is looked up under, in order
KeysOf(i) == IF IsSome(Declared(i).kw_lookup_key)
             THEN Unwrap(Declared(i).kw_lookup_key) ELSE <<>>
\* the key under which the declared argument i finds a keyword value, or None
MatchedKey(i) ==
    LET hits == {k \in 1..Len(KeysOf(i)) : KwIndexOf(KeysOf(i)[k]) > 0}
    IN  IF hits = {} THEN None
        ELSE Some(KeysOf(i)[CHOOSE k \in hits : \A j \in hits : k <= j])
GivenKeyword(i) == IsSome(MatchedKey(i))
KeywordValue(i) == InKwargs[KwIndexOf(Unwrap(MatchedKey(i)))][2]

\* the iteration of the loop over the declared arguments at argument i is running
AtArgument(i) == pc = "arguments" /\ index = i
\* the loop iteration <<loop, i>> has run
Ran(loop, i) == \E k \in 1..Len(steps) : steps[k] = <<loop, i>>
\* the call ran to its return (no child raised)
Returned == pc = "done" /\ IsCall /\ Unwrap(result).tag /= "InternalErr"
CountErrors(kind, loc) ==
    Cardinality({k \in 1..Len(errors) : errors[k].kind = kind /\ errors[k].loc = loc})
\* the values the call produced for the declared argument i
ProducedFor(i) ==
    {[validated_by |-> Declared(i).validator, value |-> v] : v \in Values}
      \cup (IF IsSome(Declared(i).default) THEN {Unwrap(Declared(i).default)} ELSE {})
      \cup (IF IsSome(Declared(i).default_factory)
          THEN {call0(Unwrap(Declared(i).default_factory))} ELSE {})
OutputValues ==
    {output_args[k] : k \in 1..Len(output_args)}
    \cup {output_kwargs[k] : k \in DOMAIN output_kwargs}
\* the number of surplus positional values
SurplusCount ==
    IF Len(InArgs) > self.positional_args_count
    THEN Len(InArgs) - self.positional_args_count ELSE 0
\* the loop iterations of a call that runs to its return
AllSteps ==
    [k \in 1..Len(self.arguments) |-> <<"arguments", k - 1>>]
    \o [k \in 1..SurplusCount |-> <<"var_args", k - 1>>]
    \o [k \in 1..Len(InKwargs) |-> <<"kwargs", k - 1>>]

(***************************************************************************)
(* C1: validate never short-circuits on a line error.  A call leaves the   *)
(* loops early only when a child raised something that is no list of line  *)
(* errors; a call that runs to its return has run every declared argument, *)
(* then every surplus positional value, then every keyword entry, and it   *)
(* returns LineErrors with all collected errors and no output when there   *)
(* is at least one, and Ok(positional output, keyword output) otherwise.   *)
(***************************************************************************)
C1_NoShortCircuit ==
    /\ (pc = "done" /\ IsCall /\ steps /= AllSteps) =>
           Unwrap(result).tag = "InternalErr"
    /\ Returned =>
          /\ steps = AllSteps
          /\ errors /= <<>> => Unwrap(result) = [tag |-> "LineErrors", errors |-> errors]
          /\ errors = <<>> =>
                Unwrap(result) = [tag |-> "Ok",
                                  value |-> [args |-> output_args, kwargs |-> output_kwargs]]

\* a call with several line errors from several places ran to its return
C1_Witness ==
    /\ Returned
    /\ Len(steps) >= 2
    /\ Unwrap(result).tag = "LineErrors"
    /\ Len(Unwrap(result).errors) >= 3
    /\ output_args /= <<>>

(***************************************************************************)
(* C2: a declared argument given both a positional and a keyword value     *)
(* gets exactly one MultipleArgumentValues error located at its name; its  *)
(* child validator is not invoked and the call produces no positional and  *)
(* no keyword output for it.                                               *)
(***************************************************************************)
C2_MultipleValues ==
    \A i \in DeclaredIndexes :
        (IsCall /\ GivenPositional(i) /\ GivenKeyword(i)) =>
            /\ \A k \in 1..Len(calls) : calls[k][1] /= Declared(i).validator
            /\ OutputValues \cap ProducedFor(i) = {}
            /\ CountErrors("MultipleArgumentValues", <<LocS(Declared(i).name)>>)
                  = IF Ran("arguments", i) THEN 1 ELSE 0
            /\ \A k \in 1..Len(errors) :
                  errors[k].kind = "MultipleArgumentValues" /\ errors[k].loc = <<LocS(Declared(i).name)>>
                      => errors[k].input = KeywordValue(i)

\* argument a at position 0 is given positionally and by keyword, and the
\* call has returned its failure
C2_Witness ==
    /\ Returned
    /\ Len(self.arguments) = 2
    /\ Declared(0).name = "a"
    /\ GivenPositional(0) /\ GivenKeyword(0)
    /\ Unwrap(result).tag = "LineErrors"
    /\ CountErrors("MultipleArgumentValues", <<LocS("a")>>) = 1

(***************************************************************************)
(* C3: a declared argument given neither a positional nor a keyword value  *)
(* takes its default, else the product of its default factory, invoked     *)
(* once: into the positional output when it has no keyword key, under its  *)
(* name in the keyword output otherwise.  With neither, the call records   *)
(* MissingKeywordArgument at the name when the argument accepts keyword    *)
(* form, else MissingPositionalArgument at the index.                      *)
(***************************************************************************)
\* the step puts `v` where argument i's default belongs
C3_Placed(i, v) ==
    IF ~IsSome(Declared(i).kwarg_key)
    THEN /\ output_args' = Append(output_args, v)
         /\ output_kwargs' = output_kwargs
    ELSE /\ output_args' = output_args
         /\ DOMAIN output_kwargs' = DOMAIN output_kwargs \cup {Declared(i).name}
         /\ output_kwargs'[Declared(i).name] = v
         /\ \A k \in DOMAIN output_kwargs \ {Declared(i).name} :
               output_kwargs'[k] = output_kwargs[k]
C3_Step(i) ==
    (AtArgument(i) /\ IsCall /\ ~GivenPositional(i) /\ ~GivenKeyword(i)) =>
        /\ calls' = calls
        /\ IF IsSome(Declared(i).default)
           THEN /\ C3_Placed(i, Unwrap(Declared(i).default))
                /\ factory_calls' = factory_calls
                /\ errors' = errors
           ELSE IF IsSome(Declared(i).default_factory)
           THEN /\ C3_Placed(i, call0(Unwrap(Declared(i).default_factory)))
                /\ factory_calls' = Append(factory_calls, i)
                /\ errors' = errors
           ELSE /\ output_args' = output_args
                /\ output_kwargs' = output_kwargs
                /\ factory_calls' = factory_calls
                /\ Len(errors') = Len(errors) + 1
                /\ SubSeq(errors', 1, Len(errors)) = errors
                /\ LET e == errors'[Len(errors')]
                   IN  IF IsSome(Declared(i).kwarg_key)
                       THEN e.kind = "MissingKeywordArgument"
                            /\ e.loc = <<LocS(Declared(i).name)>>
                       ELSE e.kind = "MissingPositionalArgument"
                            /\ e.loc = <<LocI(i)>>
\* no factory is invoked twice in a call
C3_FactoryOnce ==
    \A i \in DeclaredIndexes :
        Cardinality({k \in 1..Len(factory_calls) : factory_calls[k] = i}) <= 1
C3_Neither ==
    /\ []C3_FactoryOnce
    /\ [][\A i \in DeclaredIndexes : C3_Step(i)]_vars

\* a factory's product went to the keyword output and another argument's
\* default to the positional output
C3_Witness ==
    /\ Returned
    /\ Len(self.arguments) = 2
    /\ ~GivenPositional(0) /\ ~GivenKeyword(0) /\ ~GivenPositional(1) /\ ~GivenKeyword(1)
    /\ factory_calls = <<1>>
    /\ IsSome(Declared(0).default)
    /\ output_args = <<Unwrap(Declared(0).default)>>
    /\ output_kwargs = [k \in {"b"} |-> call0(FactoryOf("b"))]

(***************************************************************************)
(* C4: with a positional argument a and a positional argument b of default *)
(* 5, the call (args=[1], kwargs={}) succeeds.  As stated, for either      *)
(* positional mode of b, the result is (args=(1,5), kwargs={}).  Amended:  *)
(* that is the result when b is positional_only; when b is                 *)
(* positional_or_keyword the default goes to the keyword output and the    *)
(* result is (args=(1,), kwargs={"b": 5}).                                 *)
(***************************************************************************)
C4_Case ==
    /\ pc = "done"
    /\ Len(self.arguments) = 2
    /\ Declared(0).positional /\ Declared(1).positional
    /\ Declared(1).default = Some(PyInt(5))
    /\ IsCall /\ InArgs = <<PyInt(1)>> /\ InKwargs = <<>>
C4_One == [validated_by |-> "a", value |-> PyInt(1)]

\* the claim as stated
C4_Original ==
    C4_Case => Unwrap(result) = Ok([args |-> <<C4_One, PyInt(5)>>, kwargs |-> <<>>])

\* the claim as amended
C4_DefaultPlacement ==
    C4_Case =>
        IF IsSome(Declared(1).kwarg_key)
        THEN Unwrap(result) = Ok([args |-> <<C4_One>>, kwargs |-> [k \in {"b"} |-> PyInt(5)]])
        ELSE Unwrap(result) = Ok([args |-> <<C4_One, PyInt(5)>>, kwargs |-> <<>>])

C4_Witness ==
    /\ C4_Case
    /\ ~IsSome(Declared(1).kwarg_key)
    /\ Unwrap(result).tag = "Ok"

(***************************************************************************)
(* C5: the call (args=[], kwargs={}) against two required positional       *)
(* arguments fails with exactly two errors, one per missing argument.  As  *)
(* stated, each is located at its argument's index.  Amended: the error of *)
(* a positional_only argument is MissingPositionalArgument at its index,   *)
(* the error of a positional_or_keyword argument is MissingKeywordArgument *)
(* at its name.                                                            *)
(***************************************************************************)
C5_Case ==
    /\ pc = "done"
    /\ Len(self.arguments) = 2
    /\ \A i \in {0, 1} : /\ Declared(i).positional
                         /\ ~IsSome(Declared(i).default)
                         /\ ~IsSome(Declared(i).default_factory)
    /\ IsCall /\ InArgs = <<>> /\ InKwargs = <<>>
C5_TwoErrors ==
    /\ Unwrap(result).tag = "LineErrors"
    /\ Len(Unwrap(result).errors) = 2

\* the claim as stated
C5_Original ==
    C5_Case =>
        /\ C5_TwoErrors
        /\ \A i \in {0, 1} : Unwrap(result).errors[i + 1].loc = <<LocI(i)>>

\* the claim as amended
C5_MissingArguments ==
    C5_Case =>
        /\ C5_TwoErrors
        /\ \A i \in {0, 1} :
              LET e == Unwrap(result).errors[i + 1]
              IN  IF IsSome(Declared(i).kwarg_key)
                  THEN e.kind = "MissingKeywordArgument" /\ e.loc = <<LocS(Declared(i).name)>>
                  ELSE e.kind = "MissingPositionalArgument" /\ e.loc = <<LocI(i)>>

\* two positional_only arguments, both missing
C5_Witness ==
    /\ C5_Case
    /\ \A i \in {0, 1} : ~IsSome(Declared(i).kwarg_key)
    /\ C5_TwoErrors

\* the line errors of a child, each with `loc_item` in front of its location
C_Located(line_errors, loc_item) ==
    [k \in 1..Len(line_errors) |->
        [kind |-> line_errors[k].kind, loc |-> <<loc_item>> \o line_errors[k].loc,
         input |-> line_errors[k].input]]
\* the step adds the entry key -> v to the keyword output and nothing else
C_KwargSet(key, v) ==
    /\ DOMAIN output_kwargs' = DOMAIN output_kwargs \cup {key}
    /\ output_kwargs'[key] = v
    /\ \A k \in DOMAIN output_kwargs \ {key} : output_kwargs'[k] = output_kwargs[k]

(***************************************************************************)
(* C6: a declared argument given by keyword only is validated by its own   *)
(* child validator; on success the value is stored in the keyword output   *)
(* under the argument's name, never under its alias; on line errors every  *)
(* child error is recorded with the name as outer location.  The call      *)
(* (args=[], kwargs={"a": 1}) with a positional_or_keyword succeeds with a *)
(* in the keyword output and an empty positional output.                   *)
(***************************************************************************)
C6_Step(i) ==
    (AtArgument(i) /\ IsCall /\ ~GivenPositional(i) /\ GivenKeyword(i)) =>
        LET r == ChildValidate(Declared(i).validator, KeywordValue(i))
        IN  /\ calls' = Append(calls, <<Declared(i).validator, KeywordValue(i)>>)
            /\ output_args' = output_args
            /\ r.tag = "Ok" =>
                  /\ C_KwargSet(Declared(i).name, r.value)
                  /\ errors' = errors
            /\ r.tag = "LineErrors" =>
                  /\ errors' = errors \o C_Located(r.errors, LocS(Declared(i).name))
                  /\ output_kwargs' = output_kwargs
C6_Example ==
    ( /\ pc = "done"
      /\ Len(self.arguments) = 1
      /\ Declared(0).positional /\ Declared(0).kw_lookup_key = Some(<<"a">>)
      /\ IsCall /\ InArgs = <<>> /\ InKwargs = << <<PyStr("a"), PyInt(1)>> >> )
    => Unwrap(result) =
          Ok([args |-> <<>>,
              kwargs |-> [k \in {"a"} |-> [validated_by |-> "a", value |-> PyInt(1)]]])
C6_KeywordOnly ==
    /\ []C6_Example
    /\ [][\A i \in DeclaredIndexes : C6_Step(i)]_vars

\* argument a was matched through its alias and stored under its name
C6_Witness ==
    /\ Returned
    /\ Len(self.arguments) >= 1
    /\ MatchedKey(0) = Some("A")
    /\ ~GivenPositional(0)
    /\ Unwrap(result).tag = "Ok"
    /\ DOMAIN Unwrap(result).value.kwargs = {"a"}

(***************************************************************************)
(* C7: a declared argument given positionally only is validated by its own *)
(* child validator; on success the result is appended to the positional    *)
(* output, so the validated values stand in declaration order; on line     *)
(* errors every child error is recorded with the argument's index as outer *)
(* location and nothing is appended.                                       *)
(***************************************************************************)
C7_Step(i) ==
    (AtArgument(i) /\ IsCall /\ GivenPositional(i) /\ ~GivenKeyword(i)) =>
        LET r == ChildValidate(Declared(i).validator, InArgs[i + 1])
        IN  /\ calls' = Append(calls, <<Declared(i).validator, InArgs[i + 1]>>)
            /\ output_kwargs' = output_kwargs
            /\ r.tag = "Ok" =>
                  /\ output_args' = Append(output_args, r.value)
                  /\ errors' = errors
            /\ r.tag = "LineErrors" =>
                  /\ errors' = errors \o C_Located(r.errors, LocI(i))
                  /\ output_args' = output_args
\* the index of the declared argument whose child validated the output value v
C7_Origin(v) == CHOOSE i \in DeclaredIndexes : Declared(i).validator = v.validated_by
C7_FromDeclared(v) ==
    /\ "validated_by" \in DOMAIN v
    /\ \E i \in DeclaredIndexes : Declared(i).validator = v.validated_by
C7_InOrder ==
    \A k, l \in 1..Len(output_args) :
        (k < l /\ C7_FromDeclared(output_args[k]) /\ C7_FromDeclared(output_args[l]))
            => C7_Origin(output_args[k]) < C7_Origin(output_args[l])
C7_PositionalOnly ==
    /\ []C7_InOrder
    /\ [][\A i \in DeclaredIndexes : C7_Step(i)]_vars

\* the first argument validated, the second failed with its line errors at index 1
C7_Witness ==
    /\ Returned
    /\ Len(self.arguments) = 2
    /\ GivenPositional(0) /\ ~GivenKeyword(0) /\ GivenPositional(1) /\ ~GivenKeyword(1)
    /\ output_args = <<[validated_by |-> "a", value |-> PyInt(1)]>>
    /\ Len(errors) = 2
    /\ errors[1].loc = <<LocI(1)>>
    /\ errors[2].loc = <<LocI(1), LocS("inner")>>

(***************************************************************************)
(* C8: every positional value at an index i >= positional_args_count is,   *)
(* with a var-args validator, validated on its own, appended to the        *)
(* positional output on success, and its line errors are located at i;     *)
(* without one it gets exactly one UnexpectedPositionalArgument error      *)
(* located at i.                                                           *)
(***************************************************************************)
C8_Step ==
    (pc = "var_args" /\ IsCall) =>
        LET i == self.positional_args_count + index
            item == InArgs[i + 1]
        IN  /\ i < Len(InArgs)
            /\ output_kwargs' = output_kwargs
            /\ IF IsSome(self.var_args_validator)
               THEN LET r == ChildValidate(Unwrap(self.var_args_validator), item)
                    IN  /\ calls' = Append(calls, <<Unwrap(self.var_args_validator), item>>)
                        /\ r.tag = "Ok" =>
                              /\ output_args' = Append(output_args, r.value)
                              /\ errors' = errors
                        /\ r.tag = "LineErrors" =>
                              /\ errors' = errors \o C_Located(r.errors, LocI(i))
                              /\ output_args' = output_args
               ELSE /\ calls' = calls
                    /\ output_args' = output_args
                    /\ errors' = Append(errors,
                          [kind |-> "UnexpectedPositionalArgument", loc |-> <<LocI(i)>>,
                           input |-> item])
C8_Every ==
    Returned =>
        \A i \in self.positional_args_count..(Len(InArgs) - 1) :
            /\ Ran("var_args", i - self.positional_args_count)
            /\ IF IsSome(self.var_args_validator)
               THEN \E k \in 1..Len(calls) :
                       calls[k] = <<Unwrap(self.var_args_validator), InArgs[i + 1]>>
               ELSE CountErrors("UnexpectedPositionalArgument", <<LocI(i)>>) = 1
C8_SurplusPositional ==
    /\ []C8_Every
    /\ [][C8_Step]_vars

\* a surplus value at index 1 got its UnexpectedPositionalArgument error
C8_Witness ==
    /\ Returned
    /\ self.positional_args_count = 1
    /\ Len(InArgs) = 2
    /\ ~IsSome(self.var_args_validator)
    /\ CountErrors("UnexpectedPositionalArgument", <<LocI(1)>>) = 1

(***************************************************************************)
(* C9: a keyword entry whose key is no string gets an InvalidKey error     *)
(* located at the key, and the loop goes on; an entry whose key a declared *)
(* argument consumed is passed over; any other entry is validated by the   *)
(* var-kwargs validator when there is one (stored under its key on         *)
(* success, its line errors located at the key), and gets exactly one      *)
(* UnexpectedKeywordArgument error located at the key when there is none.  *)
(***************************************************************************)
C9_Consumed(key) == \E i \in DeclaredIndexes : MatchedKey(i) = Some(key)
C9_Step ==
    (pc = "kwargs" /\ IsCall) =>
        LET key == InKwargs[index + 1][1]
            v == InKwargs[index + 1][2]
        IN  /\ output_args' = output_args
            /\ IF ~IsPyStr(key)
               THEN /\ errors' = Append(errors,
                          [kind |-> "InvalidKey", loc |-> <<LocI(key.int)>>, input |-> key])
                    /\ output_kwargs' = output_kwargs
                    /\ calls' = calls
                    /\ pc' \in {"kwargs", "return"}
               ELSE IF C9_Consumed(key.str)
               THEN /\ errors' = errors
                    /\ output_kwargs' = output_kwargs
                    /\ calls' = calls
               ELSE IF IsSome(self.var_kwargs_validator)
               THEN LET r == ChildValidate(Unwrap(self.var_kwargs_validator), v)
                    IN  /\ calls' = Append(calls, <<Unwrap(self.var_kwargs_validator), v>>)
                        /\ r.tag = "Ok" =>
                              /\ C_KwargSet(key.str, r.value)
                              /\ errors' = errors
                        /\ r.tag = "LineErrors" =>
                              /\ errors' = errors \o C_Located(r.errors, LocS(key.str))
                              /\ output_kwargs' = output_kwargs
               ELSE /\ errors' = Append(errors,
                          [kind |-> "UnexpectedKeywordArgument", loc |-> <<LocS(key.str)>>,
                           input |-> v])
                    /\ output_kwargs' = output_kwargs
                    /\ calls' = calls
C9_Every ==
    Returned =>
        \A k \in 1..Len(InKwargs) :
            LET key == InKwargs[k][1]
            IN  /\ Ran("kwargs", k - 1)
                /\ ~IsPyStr(key) => CountErrors("InvalidKey", <<LocI(key.int)>>) = 1
                /\ (IsPyStr(key) /\ ~C9_Consumed(key.str) /\ ~IsSome(self.var_kwargs_validator))
                      => CountErrors("UnexpectedKeywordArgument", <<LocS(key.str)>>) = 1
                /\ (IsPyStr(key) /\ C9_Consumed(key.str))
                      => CountErrors("UnexpectedKeywordArgument", <<LocS(key.str)>>) = 0
C9_KeywordEntries ==
    /\ []C9_Every
    /\ [][C9_Step]_vars

\* an entry under the key 7, then an unexpected entry: both errors recorded
C9_Witness ==
    /\ Returned
    /\ Len(InKwargs) = 2
    /\ InKwargs[1][1] = PyInt(7)
    /\ CountErrors("InvalidKey", <<LocI(7)>>) = 1
    /\ CountErrors("UnexpectedKeywordArgument", <<LocS("b")>>) = 1
    /\ errors[Len(errors)].kind = "UnexpectedKeywordArgument"

(***************************************************************************)
(* C10: a call validated as a python ArgsKwargs-style value and the same   *)
(* call validated as a parsed document have the same outcome: the same     *)
(* outputs, or the same (error kind, location) list in the same order.     *)
(***************************************************************************)
C10_Outcome(r) ==
    IF r.tag = "LineErrors"
    THEN [k \in 1..Len(r.errors) |-> <<r.errors[k].kind, r.errors[k].loc>>]
    ELSE r
C10_SameOutcome ==
    (backing = "json" /\ pc = "done") =>
        C10_Outcome(Unwrap(result)) = C10_Outcome(Unwrap(py_result))

\* the document run of a call with positional and keyword parts ended with
\* the line errors of the python run
C10_Witness ==
    /\ backing = "json" /\ pc = "done"
    /\ Len(InArgs) >= 1 /\ Len(InKwargs) >= 1
    /\ Unwrap(py_result).tag = "LineErrors"
    /\ Len(Unwrap(py_result).errors) >= 2
    /\ C10_Outcome(Unwrap(result)) = C10_Outcome(Unwrap(py_result))

(***************************************************************************)
(* One build call: ArgumentsValidator::build applied to a schema document. *)
(***************************************************************************)
InitBuild ==
    /\ schema \in SchemaDocs
    /\ built = None
    /\ NotBuildIdle

\* ArgumentsValidator::build (arguments.rs:37-114)
Build ==
    /\ built = None
    /\ built' = Some(build(schema))
    /\ UNCHANGED << schema, notBuild >>

NextBuild == Build

SpecBuild == InitBuild /\ [][NextBuild]_vars

\* the schema's argument k (1-based) has a default or a default factory
HasDefault(k) ==
    \/ IsSome(schema.arguments_schema[k].default)
    \/ IsSome(schema.arguments_schema[k].default_factory)
\* some positional argument without default follows an argument that has one
PositionalNonDefaultFollowsDefault ==
    \E j, k \in 1..Len(schema.arguments_schema) :
        /\ j < k
        /\ HasDefault(j)
        /\ ~HasDefault(k)
        /\ positional_of(schema.arguments_schema[k].mode)
BuildFailedWith(message) ==
    IsSome(built) /\ ~Unwrap(built).ok /\ Unwrap(built).error = message

\* C11: the build fails with 'Non-default argument follows default argument'
\* exactly when a positional-only or positional-or-keyword argument without
\* default and default factory is declared after an argument that has one; a
\* keyword-only argument without default after a defaulted one does not fail it
C11_NonDefaultFollowsDefault ==
    IsSome(built) =>
        ( BuildFailedWith("Non-default argument follows default argument")
            <=> PositionalNonDefaultFollowsDefault )

(***************************************************************************)
(* The serialization recursion guard and warning collector                 *)
(* (serializers/extra.rs).                                                 *)
(***************************************************************************)
\* extra.rs:213
MAX_DEPTH == 200
\* extra.rs:203: depth is a u16
U16 == 65536

\* RecursionInfo::default (extra.rs:197-204)
RecursionInfo_default == [ids |-> {}, depth |-> 0]

\* SerRecursionGuard::add (extra.rs:215-228) on the guard's RecursionInfo, for
\* the value of identity `id`: the outcome and the RecursionInfo it leaves.
\* ids.insert(id) comes first, so the id is in the set on the depth error too
add(info, id) ==
    IF id \in info.ids
    THEN [ok |-> FALSE, error |-> "Circular reference detected (id repeated)",
          info |-> info]
    ELSE IF info.depth > MAX_DEPTH
    THEN [ok |-> FALSE, error |-> "Circular reference detected (depth exceeded)",
          info |-> [info EXCEPT !.ids = @ \cup {id}]]
    ELSE [ok |-> TRUE, id |-> id,
          info |-> [ids |-> info.ids \cup {id}, depth |-> (info.depth + 1) % U16]]

\* a pop that only counts down
pop_keeps_id(info, id) == [info EXCEPT !.depth = (@ - 1) % U16]

\* SerRecursionGuard::pop (extra.rs:230-234)
pop(info, id) == [ids |-> info.ids \ {id}, depth |-> (info.depth - 1) % U16]

\* CollectWarnings::new (extra.rs:144-149)
CollectWarnings_new(active) == [active |-> active, warnings |-> None]

\* CollectWarnings::add_warning (extra.rs:170-177)
add_warning(cw, message) ==
    [cw EXCEPT !.warnings = IF IsSome(@) THEN Some(Append(Unwrap(@), message))
                            ELSE Some(<< message >>)]

\* CollectWarnings::fallback (extra.rs:163-168); the message is the format
\* string's three holes
fallback(cw, field_type, type_name, reason) ==
    IF cw.active
    THEN add_warning(cw, [expected |-> field_type, got |-> type_name, reason |-> reason])
    ELSE cw

\* CollectWarnings::fallback_slow (extra.rs:151-155)
fallback_slow(cw, field_type, type_name) ==
    IF cw.active THEN fallback(cw, field_type, type_name, "slight slowdown possible") ELSE cw

\* CollectWarnings::fallback_filtering (extra.rs:157-161)
fallback_filtering(cw, field_type, type_name) ==
    IF cw.active
    THEN fallback(cw, field_type, type_name, "filtering via include/exclude unavailable")
    ELSE cw

\* CollectWarnings::final_check (extra.rs:179-193): the UserWarning it emits,
\* or None; the message is the header followed by the joined warnings
final_check(cw) ==
    IF cw.active /\ IsSome(cw.warnings)
    THEN Some([category |-> "UserWarning",
               header |-> "Pydantic serializer warnings:",
               lines |-> Unwrap(cw.warnings)])
    ELSE None

\* the top-level serialize calls
Calls == {1, 2}
\* bounds of the interleaved calls
MaxExtras == 3
MaxWarnings == 1

\* the values a serializer recurses into from the value v: its next item, or
\* v itself (a self-reference)
Children(v) == {v, v + 1} \cap objects

\* an Extra made where the first one was
Extra_new_cached(c) ==
    [call |-> c, made_by |-> "Extra::new", warnings |-> 1, rec_guard |-> 1]

\* Extra::new (extra.rs:32-56): warnings and rec_guard are new values
Extra_new(c) ==
    [call |-> c, made_by |-> "Extra::new",
     warnings |-> Len(collectors) + 1, rec_guard |-> Len(guards) + 1]

\* ExtraOwned::new (extra.rs:75-88) and to_extra (extra.rs:90-104): warnings
\* and rec_guard are clones of the source's
clone_of(e, made_by) ==
    [call |-> extras[e].call, made_by |-> made_by,
     warnings |-> Len(collectors) + 1, rec_guard |-> Len(guards) + 1]

IsExtra(e) == extras[e].made_by \in {"Extra::new", "to_extra"}
IsOwned(e) == extras[e].made_by = "ExtraOwned::new"
Running(c) == emitted[c] = None
rec_guard(e) == guards[extras[e].rec_guard]
warnings(e) == collectors[extras[e].warnings]

\* the Extra of the top-level call c that Extra::new made, or 0
OriginalOf(c) ==
    IF \E e \in 1..Len(extras) : extras[e].call = c /\ extras[e].made_by = "Extra::new"
    THEN CHOOSE e \in 1..Len(extras) : extras[e].call = c /\ extras[e].made_by = "Extra::new"
    ELSE 0

\* a top-level call begins: Extra::new (extra.rs:32-56)
ExtraNew(c) ==
    /\ Running(c)
    /\ OriginalOf(c) = 0
    \* the calls are numbered in the order they begin
    /\ \A b \in Calls : b < c => OriginalOf(b) /= 0
    /\ Len(extras) < MaxExtras
    /\ extras' = Append(extras, Extra_new(c))
    /\ guards' = Append(guards, RecursionInfo_default)
    /\ collectors' = Append(collectors, CollectWarnings_new(TRUE))
    /\ stacks' = Append(stacks, <<>>)
    /\ last' = [op |-> "new", extra |-> Len(extras) + 1, call |-> c]
    /\ UNCHANGED << objects, recorded, emitted >>

\* ExtraOwned::new(extra) (extra.rs:75-88)
OwnedNew(e) ==
    /\ IsExtra(e)
    /\ Running(extras[e].call)
    /\ Len(extras) < MaxExtras
    /\ extras' = Append(extras, clone_of(e, "ExtraOwned::new"))
    /\ guards' = Append(guards, rec_guard(e))
    /\ collectors' = Append(collectors, warnings(e))
    /\ stacks' = Append(stacks, <<>>)
    /\ last' = [op |-> "owned", extra |-> Len(extras) + 1, call |-> extras[e].call]
    /\ UNCHANGED << objects, recorded, emitted >>

\* ExtraOwned::to_extra (extra.rs:90-104)
ToExtra(o) ==
    /\ IsOwned(o)
    /\ Running(extras[o].call)
    /\ Len(extras) < MaxExtras
    /\ extras' = Append(extras, clone_of(o, "to_extra"))
    /\ guards' = Append(guards, rec_guard(o))
    /\ collectors' = Append(collectors, warnings(o))
    /\ stacks' = Append(stacks, <<>>)
    /\ last' = [op |-> "to_extra", extra |-> Len(extras) + 1, call |-> extras[o].call]
    /\ UNCHANGED << objects, recorded, emitted >>

\* a serializer enters the value v: extra.rec_guard.add(v) (extra.rs:215-228)
Add(e, v) ==
    /\ IsExtra(e)
    /\ Running(extras[e].call)
    /\ v \in (IF stacks[e] = <<>> THEN objects ELSE Children(stacks[e][Len(stacks[e])]))
    /\ LET r == add(rec_guard(e), v) IN
         /\ guards' = [guards EXCEPT ![extras[e].rec_guard] = r.info]
         /\ stacks' = [stacks EXCEPT ![e] = IF r.ok THEN Append(@, r.id) ELSE @]
         /\ last' = [op |-> "add", extra |-> e, call |-> extras[e].call, id |-> v,
                     ok |-> r.ok, error |-> IF r.ok THEN None ELSE Some(r.error)]
    /\ UNCHANGED << objects, extras, collectors, recorded, emitted >>

\* the serializer leaves the value it entered last: extra.rec_guard.pop(id)
\* (extra.rs:230-234)
Pop(e) ==
    /\ IsExtra(e)
    /\ Running(extras[e].call)
    /\ stacks[e] /= <<>>
    /\ LET id == stacks[e][Len(stacks[e])] IN
         /\ guards' = [guards EXCEPT ![extras[e].rec_guard] = pop(@, id)]
         /\ stacks' = [stacks EXCEPT ![e] = SubSeq(@, 1, Len(@) - 1)]
         /\ last' = [op |-> "pop", extra |-> e, call |-> extras[e].call, id |-> id]
    /\ UNCHANGED << objects, extras, collectors, recorded, emitted >>

\* the fallbacks a serializer reports
Fallbacks == {"fallback_slow", "fallback_filtering"}
ReasonOf(f) == IF f = "fallback_slow" THEN "slight slowdown possible"
               ELSE "filtering via include/exclude unavailable"

\* a serializer reports a fallback on an `int` field holding a `str`:
\* extra.warnings.fallback_slow / fallback_filtering (extra.rs:151-168)
Warn(e, f) ==
    /\ IsExtra(e)
    /\ Running(extras[e].call)
    /\ Len(recorded[extras[e].call]) < MaxWarnings
    /\ collectors' = [collectors EXCEPT ![extras[e].warnings] =
                        IF f = "fallback_slow" THEN fallback_slow(@, "int", "str")
                        ELSE fallback_filtering(@, "int", "str")]
    /\ recorded' = [recorded EXCEPT ![extras[e].call] =
                        Append(@, [expected |-> "int", got |-> "str", reason |-> ReasonOf(f)])]
    /\ last' = [op |-> "warn", extra |-> e, call |-> extras[e].call]
    /\ UNCHANGED << objects, extras, guards, stacks, emitted >>

\* the top-level call ends: extra.warnings.final_check (extra.rs:179-193) on
\* the Extra the call made with Extra::new
FinalCheck(c) ==
    /\ Running(c)
    /\ OriginalOf(c) /= 0
    /\ \A e \in 1..Len(extras) : extras[e].call = c => stacks[e] = <<>>
    /\ emitted' = [emitted EXCEPT ![c] = Some(final_check(warnings(OriginalOf(c))))]
    /\ last' = [op |-> "final_check", extra |-> OriginalOf(c), call |-> c]
    /\ UNCHANGED << objects, extras, guards, collectors, stacks, recorded >>

\* one top-level call on a chain of values deeper than the guard allows
InitGuard ==
    /\ objects = 0..(MAX_DEPTH + 1)
    /\ extras = << [call |-> 1, made_by |-> "Extra::new", warnings |-> 1, rec_guard |-> 1] >>
    /\ guards = << RecursionInfo_default >>
    /\ collectors = << CollectWarnings_new(TRUE) >>
    /\ stacks = << <<>> >>
    /\ recorded = [c \in Calls |-> <<>>]
    /\ emitted = [c \in Calls |-> None]
    /\ last = [op |-> "new", extra |-> 1, call |-> 1]
    /\ NotSerIdle

NextGuard ==
    \/ \E e \in 1..Len(extras), v \in objects :
          Add(e, v) /\ UNCHANGED notSer
    \/ \E e \in 1..Len(extras) :
          Pop(e) /\ UNCHANGED notSer

SpecGuard == InitGuard /\ [][NextGuard]_vars

\* two top-level calls, interleaved, that serialize the same value
InitCalls ==
    /\ objects = {0}
    /\ extras = <<>>
    /\ guards = <<>>
    /\ collectors = <<>>
    /\ stacks = <<>>
    /\ recorded = [c \in Calls |-> <<>>]
    /\ emitted = [c \in Calls |-> None]
    /\ last = [op |-> "none"]
    /\ NotSerIdle

NextCalls ==
    \/ \E c \in Calls : ExtraNew(c) /\ UNCHANGED notSer
    \/ \E e \in 1..Len(extras) : OwnedNew(e) /\ UNCHANGED notSer
    \/ \E o \in 1..Len(extras) : ToExtra(o) /\ UNCHANGED notSer
    \/ \E e \in 1..Len(extras), v \in objects :
          Add(e, v) /\ UNCHANGED notSer
    \/ \E e \in 1..Len(extras) : Pop(e) /\ UNCHANGED notSer
    \/ \E e \in 1..Len(extras), f \in Fallbacks :
          Warn(e, f) /\ UNCHANGED notSer
    \/ \E c \in Calls : FinalCheck(c) /\ UNCHANGED notSer

SpecCalls == InitCalls /\ [][NextCalls]_vars

(***************************************************************************)
(* Claims on the recursion guard.                                          *)
(***************************************************************************)
\* the RecursionInfo of the Extra the step acted on, before and after it
GuardBefore == guards[extras[last'.extra].rec_guard]
GuardAfter == guards'[extras[last'.extra].rec_guard]
\* the ids the Extra e added and has not popped yet
Entered(e) == {stacks[e][k] : k \in 1..Len(stacks[e])}

C12_Step ==
    /\ (last'.op = "add" /\ last'.id \in GuardBefore.ids) =>
          /\ ~last'.ok
          /\ last'.error = Some("Circular reference detected (id repeated)")
    /\ (last'.op = "pop") => add(GuardAfter, last'.id).ok

\* C12: add(v) fails with the circular-reference error whenever v's identity
\* is in the visited set, and right after the pop of an identity a new add of
\* that identity succeeds
C12_AddPop == [][C12_Step]_vars

\* an add of an identity that was added and is not yet popped has failed
C12_Witness ==
    /\ last.op = "add"
    /\ ~last.ok
    /\ last.id \in Entered(last.extra)
    /\ Len(stacks[last.extra]) > 1

\* C13: with add and pop used in strictly nested fashion the depth never goes
\* below zero (it counts the adds not yet popped), and once every add is
\* popped the depth and the visited set are what they were before the first add
C13_Balanced ==
    \A e \in 1..Len(extras) :
        /\ rec_guard(e).depth = Len(stacks[e])
        /\ stacks[e] = <<>> => rec_guard(e) = RecursionInfo_default

\* C14: the depth counter is at most 200 in every reachable state
C14_DepthCeiling == \A g \in 1..Len(guards) : guards[g].depth <= MAX_DEPTH

\* C15: a failed add leaves the guard as it was: the visited set and the depth
\* are the same as before the call
C15_FailedAddUnchanged == [][(last'.op = "add" /\ ~last'.ok) => guards' = guards]_vars

(***************************************************************************)
(* Claims on the per-call state.                                           *)
(***************************************************************************)
C16_Step ==
    /\ last'.op = "new" =>
          /\ guards'[extras'[last'.extra].rec_guard] = [ids |-> {}, depth |-> 0]
          /\ collectors'[extras'[last'.extra].warnings].warnings = None
    /\ \A e \in 1..Len(extras) :
          extras[e].call /= last'.call =>
              /\ guards'[extras[e].rec_guard] = guards[extras[e].rec_guard]
              /\ collectors'[extras[e].warnings] = collectors[extras[e].warnings]

\* C16: every Extra::new starts with an empty visited set, depth 0 and no
\* recorded warnings, and no operation of one top-level call changes the
\* recursion guard or the warnings of an Extra of another call
C16_PerCallState == [][C16_Step]_vars

\* both calls are in the middle of their work on the same value, each with
\* the value entered and a warning of its own recorded
C16_Witness ==
    /\ OriginalOf(1) /= 0
    /\ OriginalOf(2) /= 0
    /\ rec_guard(OriginalOf(1)).depth > 0
    /\ rec_guard(OriginalOf(2)).depth > 0
    /\ rec_guard(OriginalOf(1)).ids = rec_guard(OriginalOf(2)).ids
    /\ IsSome(warnings(OriginalOf(1)).warnings)
    /\ IsSome(warnings(OriginalOf(2)).warnings)
    /\ warnings(OriginalOf(1)) /= warnings(OriginalOf(2))

\* C17: what final_check on the call's original collector emits holds every
\* warning recorded during the call, through the original Extra or through an
\* Extra rebuilt from an ExtraOwned, in recording order; it emits nothing when
\* no warning was recorded
C17_WarningsSurfaced ==
    \A c \in Calls :
        IsSome(emitted[c]) =>
            LET out == Unwrap(emitted[c]) IN
            /\ recorded[c] = <<>> => out = None
            /\ recorded[c] /= <<>> => IsSome(out) /\ Unwrap(out).lines = recorded[c]

(***************************************************************************)
(* TypedDictBuilder::build (serializers/type_serializers/typed_dict.rs).   *)
(***************************************************************************)
\* PyResult
PyOk(v) == [ok |-> TRUE, value |-> v]
PyErr(e) == [ok |-> FALSE, error |-> e]

\* CombinedSerializer::build on a child schema: the schema "bad" does not compile
CombinedSerializer_build(child_schema) ==
    IF child_schema = "bad" THEN PyErr("Unknown schema type: bad")
    ELSE PyOk([serializer |-> child_schema])

MaxFields == 2

\* the keys and the field infos of the schema's `fields` dict
FieldKeys == {PyStr("x"), PyStr("y"), PyInt(7)}
FieldInfos ==
    { [required |-> None, serialization_exclude |-> Some(TRUE),
       serialization_alias |-> None, schema |-> None],
      [required |-> Some(FALSE), serialization_exclude |-> None,
       serialization_alias |-> None, schema |-> Some("int")],
      [required |-> None, serialization_exclude |-> Some(FALSE),
       serialization_alias |-> Some("X"), schema |-> Some("int")],
      [required |-> None, serialization_exclude |-> None,
       serialization_alias |-> None, schema |-> Some("bad")],
      [required |-> None, serialization_exclude |-> None,
       serialization_alias |-> None, schema |-> None] }
\* a dict is the sequence of its entries in insertion order, keys distinct
FieldDicts == { d \in SeqsUpTo(FieldKeys \X FieldInfos, MaxFields) :
                  \A i, j \in 1..Len(d) : i /= j => d[i][1] /= d[j][1] }

\* the schemas build is given.  `total` is what schema_or_config answers for
\* total / typed_dict_total, `extra_behavior` what
\* ExtraBehavior::from_schema_or_config answers, `computed_fields` what
\* ComputedFields::new answers
TdSchemas ==
    { [ total |-> t, extra_behavior |-> b, fields |-> f, extras_schema |-> x,
        computed_fields |-> c ] :
      t \in {PyOk(None), PyOk(Some(TRUE)), PyOk(Some(FALSE)),
             PyErr("total: expected bool")},
      b \in {PyOk("Allow"), PyOk("Forbid"), PyOk("Ignore"),
             PyErr("Invalid extra_behavior")},
      f \in {None} \cup {Some(d) : d \in FieldDicts},
      x \in {None, Some("int"), Some("bad")},
      c \in {PyOk("computed_fields"), PyErr("computed_fields: invalid")} }

\* typed_dict.rs:30-33
fields_mode_of(behavior) ==
    IF behavior = "Allow" THEN "TypedDictAllow" ELSE "SimpleDict"

\* extras compiled whatever the mode
extra_serializer_any_mode(extras_schema, fields_mode) ==
    IF IsSome(extras_schema)
    THEN LET b == CombinedSerializer_build(Unwrap(extras_schema))
         IN  IF b.ok THEN PyOk(Some(b.value)) ELSE b
    ELSE PyOk(None)

\* typed_dict.rs:38-44
extra_serializer_of(extras_schema, fields_mode) ==
    IF IsSome(extras_schema) /\ fields_mode = "TypedDictAllow"
    THEN LET b == CombinedSerializer_build(Unwrap(extras_schema))
         IN  IF b.ok THEN PyOk(Some(b.value)) ELSE b
    ELSE IF IsSome(extras_schema)
    THEN PyErr("extras_schema can only be used if extra_behavior=allow")
    ELSE PyOk(None)

\* SerField::new
SerField_new(key_py, alias, serializer, required) ==
    [key_py |-> key_py, alias |-> alias, serializer |-> serializer, required |-> required]

\* AHashMap::insert: the map is a function from keys to values and keeps no order
insert(map, key, val) ==
    [k \in DOMAIN map \cup {key} |-> IF k = key THEN val ELSE map[k]]

\* the loop over fields_dict (typed_dict.rs:46-64), from entry k on
RECURSIVE fields_loop(_, _, _, _)
fields_loop(fields_dict, k, total, fields) ==
    IF k > Len(fields_dict) THEN PyOk(fields)
    ELSE LET key_py == fields_dict[k][1]
             field_info == fields_dict[k][2]
         IN  IF ~IsPyStr(key_py)
             THEN PyErr("'int' object cannot be converted to 'PyString'")
             ELSE
             LET key == key_py.str
                 required == IF IsSome(field_info.required)
                             THEN Unwrap(field_info.required) ELSE total
             IN  IF field_info.serialization_exclude = Some(TRUE)
                 THEN fields_loop(fields_dict, k + 1, total,
                         insert(fields, key, SerField_new(key_py, None, None, required)))
                 ELSE IF field_info.schema = None
                 THEN PyErr("schema: field required")
                 ELSE LET b == CombinedSerializer_build(Unwrap(field_info.schema))
                      IN  IF ~b.ok
                          THEN PyErr(<< "Field", key, b.error >>)
                          ELSE fields_loop(fields_dict, k + 1, total,
                                  insert(fields, key,
                                         SerField_new(key_py, field_info.serialization_alias,
                                                      Some(b.value), required)))

\* GeneralFieldsSerializer::new
GeneralFieldsSerializer_new(fields, mode, extra_serializer, computed_fields) ==
    [fields |-> fields, mode |-> mode, extra_serializer |-> extra_serializer,
     computed_fields |-> computed_fields]

\* TypedDictBuilder::build (typed_dict.rs:20-69)
TypedDictBuilder_build(sch) ==
    IF ~sch.total.ok THEN sch.total
    ELSE IF ~sch.extra_behavior.ok THEN sch.extra_behavior
    ELSE IF sch.fields = None THEN PyErr("fields: field required")
    ELSE
    LET total == IF IsSome(sch.total.value) THEN Unwrap(sch.total.value) ELSE TRUE
        fields_mode == fields_mode_of(sch.extra_behavior.value)
        extra_serializer == extra_serializer_of(sch.extras_schema, fields_mode)
    IN  IF ~extra_serializer.ok THEN extra_serializer
        ELSE LET fields == fields_loop(Unwrap(sch.fields), 1, total, <<>>)
             IN  IF ~fields.ok THEN fields
                 ELSE IF ~sch.computed_fields.ok THEN sch.computed_fields
                 ELSE PyOk(GeneralFieldsSerializer_new(fields.value, fields_mode,
                               extra_serializer.value, sch.computed_fields.value))

\* the orders in which a map's keys can come out of an iteration
IterationOrders(map) ==
    { o \in [1..Cardinality(DOMAIN map) -> DOMAIN map] :
        \A i, j \in DOMAIN o : i /= j => o[i] /= o[j] }

InitTd ==
    /\ td_schema \in TdSchemas
    /\ td_result = None
    /\ td_order = None
    /\ NotTdIdle

TdBuild ==
    /\ td_result = None
    /\ td_result' = Some(TypedDictBuilder_build(td_schema))
    /\ UNCHANGED << td_schema, td_order, notTd >>

\* the built fields are enumerated: AHashMap iteration, in the order the
\* hasher gives
TdEnumerate ==
    /\ IsSome(td_result)
    /\ Unwrap(td_result).ok
    /\ td_order = None
    /\ \E o \in IterationOrders(Unwrap(td_result).value.fields) : td_order' = Some(o)
    /\ UNCHANGED << td_schema, td_result, notTd >>

NextTd ==
    \/ TdBuild
    \/ TdEnumerate

SpecTd == InitTd /\ [][NextTd]_vars

TdBuilt == IsSome(td_result)
ExtrasError == PyErr("extras_schema can only be used if extra_behavior=allow")
\* the build gets as far as the extras_schema
ReachesExtras == td_schema.total.ok /\ td_schema.extra_behavior.ok /\ IsSome(td_schema.fields)

\* C18: with an extras_schema the build fails with a schema error and returns
\* no serializer whenever the resolved extra behaviour is not allow; when it is
\* allow a returned serializer holds the compiled extras serializer and the
\* allow-extra fields mode; without extras_schema the build never fails with
\* the extras_schema error
C18_ExtrasSchema ==
    TdBuilt =>
      LET r == Unwrap(td_result) IN
      /\ (IsSome(td_schema.extras_schema) /\ td_schema.extra_behavior.ok
            /\ td_schema.extra_behavior.value /= "Allow") =>
              /\ ~r.ok
              /\ ReachesExtras => r = ExtrasError
      /\ (IsSome(td_schema.extras_schema) /\ td_schema.extra_behavior = PyOk("Allow")) =>
              /\ r /= ExtrasError
              /\ r.ok =>
                   /\ r.value.extra_serializer
                        = Some(CombinedSerializer_build(Unwrap(td_schema.extras_schema)).value)
                   /\ r.value.mode = "TypedDictAllow"
              /\ (ReachesExtras
                    /\ ~CombinedSerializer_build(Unwrap(td_schema.extras_schema)).ok) =>
                   r = CombinedSerializer_build(Unwrap(td_schema.extras_schema))
      /\ td_schema.extras_schema = None =>
              /\ r /= ExtrasError
              /\ r.ok => r.value.extra_serializer = None

\* a build with an extras_schema under a behaviour other than allow has failed
\* with the extras_schema error
C18_Witness ==
    /\ TdBuilt
    /\ IsSome(td_schema.extras_schema)
    /\ td_schema.extra_behavior = PyOk("Forbid")
    /\ ReachesExtras
    /\ Len(Unwrap(td_schema.fields)) = 2
    /\ Unwrap(td_result) = ExtrasError

\* the keys of the schema's fields in insertion order
SchemaFieldOrder ==
    [k \in 1..Len(Unwrap(td_schema.fields)) |-> Unwrap(td_schema.fields)[k][1].str]

\* C19: enumerating the built fields container yields the fields in the
\* insertion order of the schema's fields mapping
C19_FieldOrder == IsSome(td_order) => Unwrap(td_order) = SchemaFieldOrder

(***************************************************************************)
(* Scalar coercions of native values (input/input_python.rs).              *)
(*                                                                         *)
(* A python object is [cls, exact, val, float_method]: `cls` is the        *)
(* builtin type it is an instance of, `exact` says whether that is its     *)
(* very type (else it is an instance of a subclass), `val` is its          *)
(* content, and `float_method` is what a __float__ defined by its          *)
(* subclass returns (None when the subclass defines none).  A float is     *)
(* counted in halves (1.5 is 3 halves), texts are strings, and the         *)
(* content of bytes is the text they decode to, or InvalidUtf8.            *)
(***************************************************************************)
Text(t) == [text |-> t]
IntVal(n) == [int |-> n]
Halves(h) == [halves |-> h]
Bool(b) == [bool |-> b]
InvalidUtf8 == [invalid_utf8 |-> TRUE]

Obj(cls, exact, val) == [cls |-> cls, exact |-> exact, val |-> val, float_method |-> None]
WithFloat(o, h) == [o EXCEPT !.float_method = Some(Halves(h))]

\* the python objects the coercions are called on
PyObjects ==
    { Obj("str", TRUE, Text("1")), Obj("str", TRUE, Text("abc")),
      Obj("str", TRUE, Text("2020-01-01")), Obj("str", TRUE, Text("12:00:00")),
      Obj("str", TRUE, Text("2020-01-01T12:00:00")), Obj("str", TRUE, Text("P1D")),
      Obj("str", FALSE, Text("abc")),
      \* class S(str) with a __float__ of its own
      WithFloat(Obj("str", FALSE, Text("abc")), 2),
      WithFloat(Obj("str", FALSE, Text("1.5")), 2),
      Obj("bytes", TRUE, Text("1")), Obj("bytes", TRUE, InvalidUtf8),
      Obj("bytes", FALSE, Text("1")),
      WithFloat(Obj("bytes", FALSE, InvalidUtf8), 2),
      Obj("bytearray", TRUE, Text("1")), Obj("bytearray", TRUE, InvalidUtf8),
      Obj("bool", TRUE, Bool(TRUE)), Obj("bool", TRUE, Bool(FALSE)),
      Obj("int", TRUE, IntVal(1)), Obj("int", TRUE, IntVal(5)), Obj("int", FALSE, IntVal(1)),
      Obj("float", TRUE, Halves(2)), Obj("float", TRUE, Halves(3)),
      Obj("float", FALSE, Halves(2)),
      Obj("Decimal", TRUE, Halves(2)), Obj("Decimal", TRUE, Halves(3)),
      Obj("Enum", FALSE, [py |-> Obj("int", TRUE, IntVal(1))]),
      \* an enum member whose class defines __float__
      WithFloat(Obj("Enum", FALSE, [py |-> Obj("int", TRUE, IntVal(1))]), 4),
      Obj("date", TRUE, Text("2020-01-01")), Obj("date", FALSE, Text("2020-01-01")),
      Obj("datetime", TRUE, Text("2020-01-01T12:00:00")),
      Obj("datetime", FALSE, Text("2020-01-01T12:00:00")),
      Obj("time", TRUE, Text("12:00:00")), Obj("time", FALSE, Text("12:00:00")),
      Obj("timedelta", TRUE, Text("P1D")), Obj("timedelta", FALSE, Text("P1D")),
      Obj("NoneType", TRUE, Text("None")) }

\* the builtin types an instance of cls is an instance of
Supers(cls) ==
    CASE cls = "bool" -> {"bool", "int"}
      [] cls = "datetime" -> {"datetime", "date"}
      [] OTHER -> {cls}
\* PyAny::is_instance_of / downcast
is_instance_of(o, ty) == ty \in Supers(o.cls)
\* PyAny::is_exact_instance_of / downcast_exact
is_exact_instance_of(o, ty) == o.cls = ty /\ o.exact

\* the int an int (or bool) object holds
IntOf(o) == IF o.cls = "bool" THEN (IF o.val.bool THEN 1 ELSE 0) ELSE o.val.int

\* self.extract::<f64>(): a float's value, else PyFloat_AsDouble, which calls
\* __float__ (int, bool and Decimal have one) and fails without it
extract_f64(o) ==
    IF is_instance_of(o, "float") /\ o.float_method = None THEN Some(o.val.halves)
    ELSE IF IsSome(o.float_method) THEN Some(Unwrap(o.float_method).halves)
    ELSE IF is_instance_of(o, "int") THEN Some(2 * IntOf(o))
    ELSE IF o.cls = "Decimal" THEN Some(o.val.halves)
    ELSE None

\* tools::extract_i64: the value of an int (or bool) object
extract_i64(o) == IF is_instance_of(o, "int") THEN Some(IntOf(o)) ELSE None

\* ValidationMatch
ValidationMatch_new(v, exactness) == [value |-> v, exactness |-> exactness]
ValidationMatch_exact(v) == ValidationMatch_new(v, "Exact")
ValidationMatch_strict(v) == ValidationMatch_new(v, "Strict")
ValidationMatch_lax(v) == ValidationMatch_new(v, "Lax")

\* ValError::new(error_type, input)
ValError_new(error_type, o) == LineErrors(<< new_line_error(error_type, o) >>)

\* result.map(ValidationMatch::lax)
map_lax(r) == IF r.tag = "Ok" THEN Ok(ValidationMatch_lax(r.value)) ELSE r

\* std::str::from_utf8 on the content of bytes
from_utf8(content) == IF content = InvalidUtf8 THEN None ELSE Some(content.text)

\* maybe_as_string (input_python.rs:752-764): Ok(Some(text)), Ok(None), or the
\* unicode error
maybe_as_string(o, unicode_error) ==
    IF is_instance_of(o, "str") THEN Ok(Some(o.val.text))
    ELSE IF is_instance_of(o, "bytes")
    THEN IF IsSome(from_utf8(o.val)) THEN Ok(from_utf8(o.val))
         ELSE ValError_new(unicode_error, o)
    ELSE Ok(None)

\* maybe_as_enum (input_python.rs:767-776): the member's value
maybe_as_enum(o) == IF o.cls = "Enum" THEN Some(o.val.py) ELSE None

\* the conversions of input/shared.rs and input/datetime.rs the coercions call
str_as_int(o, text) ==
    IF text = "1" THEN Ok(IntVal(1)) ELSE ValError_new("IntParsing", o)
str_as_float(o, text) ==
    CASE text = "1" -> Ok(Halves(2))
      [] text = "1.5" -> Ok(Halves(3))
      [] OTHER -> ValError_new("FloatParsing", o)
str_as_bool(o, text) ==
    IF text = "1" THEN Ok(Bool(TRUE)) ELSE ValError_new("BoolParsing", o)
int_as_bool(o, n) ==
    IF n \in {0, 1} THEN Ok(Bool(n = 1)) ELSE ValError_new("BoolParsing", o)
float_as_int(o, h) ==
    IF h % 2 = 0 THEN Ok(IntVal(h \div 2)) ELSE ValError_new("IntFromFloat", o)
decimal_as_int(o, h) ==
    IF h % 2 = 0 THEN Ok(IntVal(h \div 2)) ELSE ValError_new("IntFromFloat", o)
bytes_as_date(o, content) ==
    IF content = Text("2020-01-01") THEN Ok([date |-> "2020-01-01"])
    ELSE ValError_new("DateParsing", o)
bytes_as_time(o, content) ==
    IF content = Text("12:00:00") THEN Ok([time |-> "12:00:00"])
    ELSE ValError_new("TimeParsing", o)
bytes_as_datetime(o, content) ==
    IF content = Text("2020-01-01T12:00:00") THEN Ok([datetime |-> "2020-01-01T12:00:00"])
    ELSE ValError_new("DatetimeParsing", o)
bytes_as_timedelta(o, content) ==
    IF content = Text("P1D") THEN Ok([timedelta |-> "P1D"])
    ELSE ValError_new("TimeDeltaParsing", o)
int_as_time(o, n) == Ok([time |-> << "seconds", 2 * n >>])
float_as_time(o, h) == Ok([time |-> << "seconds", h >>])
int_as_datetime(o, n) == Ok([datetime |-> << "timestamp", 2 * n >>])
float_as_datetime(o, h) == Ok([datetime |-> << "timestamp", h >>])
date_as_datetime(o) == Ok([datetime |-> << "date", o.val.text >>])
int_as_duration(o, n) == Ok([timedelta |-> << "seconds", 2 * n >>])
float_as_duration(o, h) == Ok([timedelta |-> << "seconds", h >>])
\* EitherInt::upcast: int(self)
EitherInt_upcast(o) == Ok(IntVal(IntOf(o)))
\* EitherTimedelta::try_from
EitherTimedelta_try_from(o) ==
    IF is_exact_instance_of(o, "timedelta") THEN Some("PyExact")
    ELSE IF is_instance_of(o, "timedelta") THEN Some("PySubclass")
    ELSE None
\* self.str() of a number
str_of(o) ==
    CASE is_instance_of(o, "int") ->
            (CASE IntOf(o) = 0 -> "0" [] IntOf(o) = 1 -> "1" [] OTHER -> "5")
      [] is_instance_of(o, "float") -> (IF o.val.halves = 2 THEN "1.0" ELSE "1.5")
      [] OTHER -> (IF o.val.halves = 2 THEN "1" ELSE "1.5")

\* validate_str (input_python.rs:178-227)
validate_str(o, strict, coerce_numbers_to_str) ==
    IF is_exact_instance_of(o, "str") THEN Ok(ValidationMatch_exact(o.val))
    ELSE IF is_instance_of(o, "str") THEN Ok(ValidationMatch_strict(o.val))
    ELSE IF ~strict /\ is_instance_of(o, "bytes")
    THEN IF IsSome(from_utf8(o.val)) THEN Ok(ValidationMatch_lax(o.val))
         ELSE ValError_new("StringUnicode", o)
    ELSE IF ~strict /\ is_instance_of(o, "bytearray")
    THEN IF IsSome(from_utf8(o.val)) THEN Ok(ValidationMatch_lax(o.val))
         ELSE ValError_new("StringUnicode", o)
    ELSE IF /\ ~strict
            /\ coerce_numbers_to_str
            /\ ~is_exact_instance_of(o, "bool")
            /\ (is_instance_of(o, "int") \/ is_instance_of(o, "float") \/ o.cls = "Decimal")
    THEN Ok(ValidationMatch_lax(Text(str_of(o))))
    ELSE IF ~strict /\ IsSome(maybe_as_enum(o))
    THEN Ok(ValidationMatch_lax(Text(str_of(Unwrap(maybe_as_enum(o))))))
    ELSE ValError_new("StringType", o)

\* validate_bytes (input_python.rs:245-267)
validate_bytes(o, strict) ==
    IF is_exact_instance_of(o, "bytes") THEN Ok(ValidationMatch_exact(o.val))
    ELSE IF is_instance_of(o, "bytes") THEN Ok(ValidationMatch_strict(o.val))
    ELSE IF ~strict /\ is_instance_of(o, "str") THEN Ok(ValidationMatch_lax(o.val))
    ELSE IF ~strict /\ is_instance_of(o, "bytearray") THEN Ok(ValidationMatch_lax(o.val))
    ELSE ValError_new("BytesType", o)

\* validate_bool (input_python.rs:269-290)
validate_bool(o, strict) ==
    IF is_instance_of(o, "bool") THEN Ok(ValidationMatch_exact(o.val))
    ELSE IF strict THEN ValError_new("BoolType", o)
    ELSE LET cow_str == maybe_as_string(o, "BoolParsing") IN
         IF cow_str.tag /= "Ok" THEN cow_str
         ELSE IF IsSome(cow_str.value) THEN map_lax(str_as_bool(o, Unwrap(cow_str.value)))
         ELSE IF IsSome(extract_i64(o)) THEN map_lax(int_as_bool(o, Unwrap(extract_i64(o))))
         ELSE IF /\ IsSome(extract_f64(o))
                 /\ float_as_int(o, Unwrap(extract_f64(o))).tag = "Ok"
         THEN LET int == float_as_int(o, Unwrap(extract_f64(o))).value.int IN
              IF int \in {0, 1} THEN Ok(ValidationMatch_lax(Bool(int = 1)))
              ELSE ValError_new("BoolParsing", o)
         ELSE ValError_new("BoolType", o)

\* strict_decimal (input_python.rs:359-381): a Decimal instance
strict_decimal(o) == IF o.cls = "Decimal" THEN Some(o.val.halves) ELSE None

\* validate_int trying the enum member before the float-convertible value
validate_int_enum_first(o, strict) ==
    IF is_exact_instance_of(o, "int") THEN Ok(ValidationMatch_exact(IntVal(IntOf(o))))
    ELSE IF is_instance_of(o, "int")
    THEN IF is_instance_of(o, "bool") /\ strict THEN ValError_new("IntType", o)
         ELSE LET exactness == IF is_instance_of(o, "bool") THEN "Lax" ELSE "Strict"
              IN  Ok(ValidationMatch_new(EitherInt_upcast(o).value, exactness))
    ELSE IF strict THEN ValError_new("IntType", o)
    ELSE LET cow_str == maybe_as_string(o, "IntParsing") IN
         IF cow_str.tag /= "Ok" THEN cow_str
         ELSE IF IsSome(cow_str.value) THEN map_lax(str_as_int(o, Unwrap(cow_str.value)))
         ELSE IF is_exact_instance_of(o, "float")
         THEN map_lax(float_as_int(o, Unwrap(extract_f64(o))))
         ELSE IF IsSome(strict_decimal(o))
         THEN map_lax(decimal_as_int(o, Unwrap(strict_decimal(o))))
         ELSE IF IsSome(maybe_as_enum(o))
         THEN Ok(ValidationMatch_lax(Unwrap(maybe_as_enum(o)).val))
         ELSE IF IsSome(extract_f64(o))
         THEN map_lax(float_as_int(o, Unwrap(extract_f64(o))))
         ELSE ValError_new("IntType", o)

\* validate_int (input_python.rs:292-330)
validate_int(o, strict) ==
    IF is_exact_instance_of(o, "int") THEN Ok(ValidationMatch_exact(IntVal(IntOf(o))))
    ELSE IF is_instance_of(o, "int")
    THEN IF is_instance_of(o, "bool") /\ strict THEN ValError_new("IntType", o)
         ELSE LET exactness == IF is_instance_of(o, "bool") THEN "Lax" ELSE "Strict"
              IN  Ok(ValidationMatch_new(EitherInt_upcast(o).value, exactness))
    ELSE IF strict THEN ValError_new("IntType", o)
    ELSE LET cow_str == maybe_as_string(o, "IntParsing") IN
         IF cow_str.tag /= "Ok" THEN cow_str
         ELSE IF IsSome(cow_str.value) THEN map_lax(str_as_int(o, Unwrap(cow_str.value)))
         ELSE IF is_exact_instance_of(o, "float")
         THEN map_lax(float_as_int(o, Unwrap(extract_f64(o))))
         ELSE IF IsSome(strict_decimal(o))
         THEN map_lax(decimal_as_int(o, Unwrap(strict_decimal(o))))
         ELSE IF IsSome(extract_f64(o))
         THEN map_lax(float_as_int(o, Unwrap(extract_f64(o))))
         ELSE IF IsSome(maybe_as_enum(o))
         THEN Ok(ValidationMatch_lax(Unwrap(maybe_as_enum(o)).val))
         ELSE ValError_new("IntType", o)

\* validate_float without the test for bool in its extract::<f64>() branch
validate_float_any_number(o, strict) ==
    IF is_exact_instance_of(o, "float") THEN Ok(ValidationMatch_exact(o.val))
    ELSE LET cow_str == IF strict THEN Ok(None) ELSE maybe_as_string(o, "FloatParsing") IN
         IF cow_str.tag /= "Ok" THEN cow_str
         ELSE IF IsSome(cow_str.value)
         THEN map_lax(str_as_float(o, Unwrap(cow_str.value)))
         ELSE IF IsSome(extract_f64(o))
         THEN Ok(ValidationMatch_strict(Halves(Unwrap(extract_f64(o)))))
         ELSE ValError_new("FloatType", o)

\* validate_float (input_python.rs:332-357)
validate_float(o, strict) ==
    IF is_exact_instance_of(o, "float") THEN Ok(ValidationMatch_exact(o.val))
    ELSE LET cow_str == IF strict THEN Ok(None) ELSE maybe_as_string(o, "FloatParsing") IN
         IF cow_str.tag /= "Ok" THEN cow_str
         ELSE IF IsSome(cow_str.value)
         THEN map_lax(str_as_float(o, Unwrap(cow_str.value)))
         ELSE IF IsSome(extract_f64(o))
         THEN IF is_instance_of(o, "bool") /\ strict THEN ValError_new("FloatType", o)
              ELSE Ok(ValidationMatch_new(Halves(Unwrap(extract_f64(o))),
                          IF is_instance_of(o, "bool") THEN "Lax" ELSE "Strict"))
         ELSE ValError_new("FloatType", o)

\* validate_date (input_python.rs:574-599)
validate_date(o, strict) ==
    IF is_exact_instance_of(o, "date") THEN Ok(ValidationMatch_exact([date |-> o.val.text]))
    ELSE IF is_instance_of(o, "datetime") THEN ValError_new("DateType", o)
    ELSE IF is_instance_of(o, "date") THEN Ok(ValidationMatch_strict([date |-> o.val.text]))
    ELSE IF ~strict /\ (is_instance_of(o, "str") \/ is_instance_of(o, "bytes"))
    THEN map_lax(bytes_as_date(o, o.val))
    ELSE ValError_new("DateType", o)

\* validate_time (input_python.rs:601-633)
validate_time(o, strict) ==
    IF is_exact_instance_of(o, "time") THEN Ok(ValidationMatch_exact([time |-> o.val.text]))
    ELSE IF is_instance_of(o, "time") THEN Ok(ValidationMatch_strict([time |-> o.val.text]))
    ELSE IF strict THEN ValError_new("TimeType", o)
    ELSE IF is_instance_of(o, "str") \/ is_instance_of(o, "bytes")
    THEN map_lax(bytes_as_time(o, o.val))
    ELSE IF is_exact_instance_of(o, "bool") THEN ValError_new("TimeType", o)
    ELSE IF IsSome(extract_i64(o)) THEN map_lax(int_as_time(o, Unwrap(extract_i64(o))))
    ELSE IF IsSome(extract_f64(o)) THEN map_lax(float_as_time(o, Unwrap(extract_f64(o))))
    ELSE ValError_new("TimeType", o)

\* validate_datetime (input_python.rs:635-669)
validate_datetime(o, strict) ==
    IF is_exact_instance_of(o, "datetime")
    THEN Ok(ValidationMatch_exact([datetime |-> o.val.text]))
    ELSE IF is_instance_of(o, "datetime")
    THEN Ok(ValidationMatch_strict([datetime |-> o.val.text]))
    ELSE IF strict THEN ValError_new("DatetimeType", o)
    ELSE IF is_instance_of(o, "str") \/ is_instance_of(o, "bytes")
    THEN map_lax(bytes_as_datetime(o, o.val))
    ELSE IF is_exact_instance_of(o, "bool") THEN ValError_new("DatetimeType", o)
    ELSE IF IsSome(extract_i64(o)) THEN map_lax(int_as_datetime(o, Unwrap(extract_i64(o))))
    ELSE IF IsSome(extract_f64(o)) THEN map_lax(float_as_datetime(o, Unwrap(extract_f64(o))))
    ELSE IF is_instance_of(o, "date") THEN map_lax(date_as_datetime(o))
    ELSE ValError_new("DatetimeType", o)

\* validate_timedelta (input_python.rs:671-704)
validate_timedelta(o, strict) ==
    IF IsSome(EitherTimedelta_try_from(o))
    THEN Ok(ValidationMatch_new([timedelta |-> o.val.text],
                IF Unwrap(EitherTimedelta_try_from(o)) = "PyExact" THEN "Exact" ELSE "Strict"))
    ELSE IF strict THEN ValError_new("TimeDeltaType", o)
    ELSE IF is_instance_of(o, "str") \/ is_instance_of(o, "bytes")
    THEN map_lax(bytes_as_timedelta(o, o.val))
    ELSE IF IsSome(extract_i64(o)) THEN map_lax(int_as_duration(o, Unwrap(extract_i64(o))))
    ELSE IF IsSome(extract_f64(o)) THEN map_lax(float_as_duration(o, Unwrap(extract_f64(o))))
    ELSE ValError_new("TimeDeltaType", o)

\* exact_str (input_python.rs:229-235)
exact_str(o) ==
    IF is_exact_instance_of(o, "str") THEN Ok(o.val) ELSE ValError_new("IntType", o)

\* exact_int (input_python.rs:237-243)
exact_int(o) ==
    IF is_exact_instance_of(o, "int") THEN Ok(IntVal(IntOf(o))) ELSE ValError_new("IntType", o)

\* strict_dict (input_python.rs:403-409)
strict_dict(o) ==
    IF is_instance_of(o, "dict") THEN Ok([mapping |-> "Dict"]) ELSE ValError_new("DictType", o)

\* lax_dict (input_python.rs:411-419)
lax_dict(o) ==
    IF is_instance_of(o, "dict") THEN Ok([mapping |-> "Dict"])
    ELSE IF is_instance_of(o, "Mapping") THEN Ok([mapping |-> "Mapping"])
    ELSE ValError_new("DictType", o)

\* extract_generic_iterable (input_python.rs:531-564): the GenericIterable
\* variant of the object
extract_generic_iterable(o) ==
    CASE is_instance_of(o, "list") -> Ok("List")
      [] is_instance_of(o, "tuple") -> Ok("Tuple")
      [] is_instance_of(o, "set") -> Ok("Set")
      [] is_instance_of(o, "frozenset") -> Ok("FrozenSet")
      [] is_instance_of(o, "dict") -> Ok("Dict")
      [] o.cls = "dict_keys" -> Ok("DictKeys")
      [] o.cls = "dict_values" -> Ok("DictValues")
      [] o.cls = "dict_items" -> Ok("DictItems")
      [] is_instance_of(o, "Mapping") -> Ok("Mapping")
      [] is_instance_of(o, "str") -> Ok("PyString")
      [] is_instance_of(o, "bytes") -> Ok("Bytes")
      [] is_instance_of(o, "bytearray") -> Ok("PyByteArray")
      [] is_instance_of(o, "Sequence") -> Ok("Sequence")
      [] is_instance_of(o, "Iterator") -> Ok("Iterator")
      [] OTHER -> ValError_new("IterableType", o)

\* the match of lax_list, lax_tuple, lax_set and lax_frozenset
\* (input_python.rs:458-469, 478-489, 498-509, 518-529)
lax_iterable(o, error_type) ==
    LET r == extract_generic_iterable(o) IN
    IF r.tag /= "Ok" THEN ValError_new(error_type, o)
    ELSE IF r.value \in {"PyString", "Bytes", "Dict", "Mapping"} THEN ValError_new(error_type, o)
    ELSE r
lax_list(o) == lax_iterable(o, "ListType")
lax_tuple(o) == lax_iterable(o, "TupleType")
lax_set(o) == lax_iterable(o, "SetType")
lax_frozenset(o) == lax_iterable(o, "FrozenSetType")

\* the match of strict_list, strict_tuple, strict_set and strict_frozenset
\* (input_python.rs:451-456, 471-476, 491-496, 511-516)
strict_iterable(o, lax, variant, error_type) ==
    IF lax.tag /= "Ok" THEN lax
    ELSE IF lax.value = variant THEN lax
    ELSE ValError_new(error_type, o)
strict_list(o) == strict_iterable(o, lax_list(o), "List", "ListType")
strict_tuple(o) == strict_iterable(o, lax_tuple(o), "Tuple", "TupleType")
strict_set(o) == strict_iterable(o, lax_set(o), "Set", "SetType")
strict_frozenset(o) == strict_iterable(o, lax_frozenset(o), "FrozenSet", "FrozenSetType")

\* the object as validate_args sees it
ArgsInput(o) ==
    CASE o.cls \in {"dict", "tuple", "list"} -> [kind |-> o.cls, items |-> <<>>]
      [] o.cls = "ArgsKwargs" -> ArgsKwargs_new(<<>>, None)
      [] OTHER -> [kind |-> o.cls]

\* the scalar coercions and the values of their other parameters
CoerceCalls ==
    { [fn |-> "validate_str", coerce_numbers_to_str |-> c] : c \in BOOLEAN }
    \cup { [fn |-> f] : f \in {"validate_bytes", "validate_bool", "validate_int",
                               "validate_float", "validate_date", "validate_time",
                               "validate_datetime", "validate_timedelta"} }

\* the call `call` on the object o; an extraction that comes as a strict and
\* a lax function is called as the one strict selects
Coerce(call, o, strict) ==
    CASE call.fn = "validate_str" -> validate_str(o, strict, call.coerce_numbers_to_str)
      [] call.fn = "validate_bytes" -> validate_bytes(o, strict)
      [] call.fn = "validate_bool" -> validate_bool(o, strict)
      [] call.fn = "validate_int" -> validate_int(o, strict)
      [] call.fn = "validate_float" -> validate_float(o, strict)
      [] call.fn = "validate_date" -> validate_date(o, strict)
      [] call.fn = "validate_time" -> validate_time(o, strict)
      [] call.fn = "validate_datetime" -> validate_datetime(o, strict)
      [] call.fn = "validate_timedelta" -> validate_timedelta(o, strict)
      [] call.fn = "exact_str" -> exact_str(o)
      [] call.fn = "exact_int" -> exact_int(o)
      [] call.fn = "dict" -> (IF strict THEN strict_dict(o) ELSE lax_dict(o))
      [] call.fn = "list" -> (IF strict THEN strict_list(o) ELSE lax_list(o))
      [] call.fn = "tuple" -> (IF strict THEN strict_tuple(o) ELSE lax_tuple(o))
      [] call.fn = "set" -> (IF strict THEN strict_set(o) ELSE lax_set(o))
      [] call.fn = "frozenset" -> (IF strict THEN strict_frozenset(o) ELSE lax_frozenset(o))
      [] call.fn = "validate_args" -> py_validate_args(ArgsInput(o))

InitCoerce ==
    /\ coerce_obj \in PyObjects
    /\ coerce_call \in CoerceCalls
    /\ strict_out = None
    /\ lax_out = None
    /\ NotCoerceIdle

\* the coercion is called with strict = true
CoerceStrict ==
    /\ strict_out = None
    /\ strict_out' = Some(Coerce(coerce_call, coerce_obj, TRUE))
    /\ UNCHANGED << coerce_obj, coerce_call, lax_out, notCoerce >>

\* the coercion is called with strict = false
CoerceLax ==
    /\ lax_out = None
    /\ lax_out' = Some(Coerce(coerce_call, coerce_obj, FALSE))
    /\ UNCHANGED << coerce_obj, coerce_call, strict_out, notCoerce >>

NextCoerce ==
    \/ CoerceStrict
    \/ CoerceLax

SpecCoerce == InitCoerce /\ [][NextCoerce]_vars

\* the typed extractions: the scalar coercions, exact_str and exact_int, the
\* containers and the call arguments
ExtractCalls ==
    CoerceCalls
    \cup { [fn |-> f] : f \in {"exact_str", "exact_int", "dict", "list", "tuple", "set",
                               "frozenset", "validate_args"} }

\* the objects the extractions are called on: the ones of the coercions and
\* the containers
ExtractObjects ==
    PyObjects
    \cup { Obj(c, TRUE, Text("")) :
             c \in {"list", "tuple", "set", "frozenset", "dict", "dict_keys", "dict_values",
                    "dict_items", "Mapping", "Sequence", "Iterator", "ArgsKwargs"} }

InitExtract ==
    /\ coerce_obj \in ExtractObjects
    /\ coerce_call \in ExtractCalls
    /\ strict_out = None
    /\ lax_out = None
    /\ NotCoerceIdle

SpecExtract == InitExtract /\ [][NextCoerce]_vars

\* C20: for every scalar coercion and every input, if the call with
\* strict = true succeeds with exactness e, the call with strict = false on
\* the same input succeeds too and reports the same exactness e
C20_LaxKeepsStrict ==
    (IsSome(strict_out) /\ IsSome(lax_out) /\ Unwrap(strict_out).tag = "Ok") =>
        /\ Unwrap(lax_out).tag = "Ok"
        /\ Unwrap(lax_out).value.exactness = Unwrap(strict_out).value.exactness

\* the wrong-type error of a numeric coercion
NumericTypeError(fn) == IF fn = "validate_int" THEN "IntType" ELSE "FloatType"

\* C21: validate_int and validate_float reject a bool with their wrong-type
\* error when strict = true, and when strict = false accept it with
\* exactness Lax only
C21_BoolAsNumber ==
    (is_instance_of(coerce_obj, "bool") /\ coerce_call.fn \in {"validate_int", "validate_float"}) =>
        /\ IsSome(strict_out) =>
              Unwrap(strict_out) = ValError_new(NumericTypeError(coerce_call.fn), coerce_obj)
        /\ (IsSome(lax_out) /\ Unwrap(lax_out).tag = "Ok") =>
              Unwrap(lax_out).value.exactness = "Lax"

\* a bool went through validate_float in both modes and was taken as a Lax float
C21_Witness ==
    /\ is_instance_of(coerce_obj, "bool")
    /\ coerce_call.fn = "validate_float"
    /\ IsSome(strict_out) /\ Unwrap(strict_out).tag = "LineErrors"
    /\ IsSome(lax_out) /\ Unwrap(lax_out).tag = "Ok"
    /\ Unwrap(lax_out).value.exactness = "Lax"

\* the builtin type a scalar coercion produces
TargetOf(fn) ==
    CASE fn = "validate_str" -> "str"
      [] fn = "validate_bytes" -> "bytes"
      [] fn = "validate_bool" -> "bool"
      [] fn = "validate_int" -> "int"
      [] fn = "validate_float" -> "float"
      [] fn = "validate_date" -> "date"
      [] fn = "validate_time" -> "time"
      [] fn = "validate_datetime" -> "datetime"
      [] fn = "validate_timedelta" -> "timedelta"

\* the input has to be interpreted to give the target: a text taken as a
\* number, a bool taken as a number, an int widened to a float
NeedsInterpretation(fn, o) ==
    \/ fn \in {"validate_int", "validate_float"}
         /\ (is_instance_of(o, "str") \/ is_instance_of(o, "bytes"))
    \/ fn \in {"validate_int", "validate_float"} /\ is_instance_of(o, "bool")
    \/ fn = "validate_float" /\ is_instance_of(o, "int")

\* the outcomes of the calls made so far
CoerceOutcomes == { Unwrap(out) : out \in { x \in {strict_out, lax_out} : IsSome(x) } }

\* C22: an input that is exactly the target representation reports Exact,
\* and an accepted input that needs interpretation reports Lax
C22_ExactnessOfInput ==
    \A r \in CoerceOutcomes :
        /\ is_exact_instance_of(coerce_obj, TargetOf(coerce_call.fn)) =>
              (r.tag = "Ok" /\ r.value.exactness = "Exact")
        /\ (NeedsInterpretation(coerce_call.fn, coerce_obj) /\ r.tag = "Ok") =>
              r.value.exactness = "Lax"

\* the wrong-type error of each extraction's target
WrongTypeError(fn) ==
    CASE fn \in {"validate_str", "exact_str"} -> "StringType"
      [] fn \in {"validate_int", "exact_int"} -> "IntType"
      [] fn = "validate_bytes" -> "BytesType"
      [] fn = "validate_bool" -> "BoolType"
      [] fn = "validate_float" -> "FloatType"
      [] fn = "validate_date" -> "DateType"
      [] fn = "validate_time" -> "TimeType"
      [] fn = "validate_datetime" -> "DatetimeType"
      [] fn = "validate_timedelta" -> "TimeDeltaType"
      [] fn = "dict" -> "DictType"
      [] fn = "list" -> "ListType"
      [] fn = "tuple" -> "TupleType"
      [] fn = "set" -> "SetType"
      [] fn = "frozenset" -> "FrozenSetType"
      [] fn = "validate_args" -> "ArgumentsType"
WrongTypeErrors == { WrongTypeError(c.fn) : c \in ExtractCalls }

\* C23: an extraction that finds no satisfying branch fails with the
\* wrong-type error of its own target: None, which satisfies no branch of any
\* extraction, gets that error, and no extraction returns the wrong-type
\* error of another target
C23_OwnTypeError ==
    \A r \in CoerceOutcomes :
        /\ coerce_obj.cls = "NoneType" =>
              (r.tag = "LineErrors" /\ r.errors[1].kind = WrongTypeError(coerce_call.fn))
        /\ (r.tag = "LineErrors" /\ r.errors[1].kind \in WrongTypeErrors) =>
              r.errors[1].kind = WrongTypeError(coerce_call.fn)

\* the first branch of lax validate_int the input matches by its type alone
IntBranch(o) ==
    IF is_exact_instance_of(o, "int") THEN "exact int"
    ELSE IF is_instance_of(o, "int") THEN "int subtype"
    ELSE IF is_instance_of(o, "str") \/ is_instance_of(o, "bytes") THEN "text"
    ELSE IF is_exact_instance_of(o, "float") THEN "exact float"
    ELSE IF o.cls = "Decimal" THEN "decimal"
    ELSE IF IsSome(extract_f64(o)) THEN "float-convertible"
    ELSE IF o.cls = "Enum" THEN "enum"
    ELSE "none"

\* C24: validate_int with strict = false takes the first matching branch of
\* exact int, int subtype, text, exact float, decimal, float-convertible,
\* enum member; an exact int is Exact, a bool Lax, another int subtype
\* Strict, every later branch Lax, and no match gives the int-type error
C24_IntPrecedence ==
    (coerce_call.fn = "validate_int" /\ IsSome(lax_out)) =>
        LET o == coerce_obj
            r == Unwrap(lax_out)
            branch == IntBranch(o)
        IN  /\ branch = "exact int" => r = Ok(ValidationMatch_new(IntVal(o.val.int), "Exact"))
            /\ branch = "int subtype" =>
                  r = Ok(ValidationMatch_new(IntVal(IntOf(o)),
                            IF o.cls = "bool" THEN "Lax" ELSE "Strict"))
            /\ branch = "text" =>
                  IF o.val = InvalidUtf8
                  THEN r = ValError_new("IntParsing", o)
                  ELSE r = map_lax(str_as_int(o, o.val.text))
            /\ branch = "exact float" => r = map_lax(float_as_int(o, o.val.halves))
            /\ branch = "decimal" => r = map_lax(decimal_as_int(o, o.val.halves))
            /\ branch = "float-convertible" =>
                  r = map_lax(float_as_int(o, Unwrap(extract_f64(o))))
            /\ branch = "enum" => r = Ok(ValidationMatch_new(o.val.py.val, "Lax"))
            /\ branch = "none" => r = ValError_new("IntType", o)
            /\ (r.tag = "Ok" /\ branch \notin {"exact int", "int subtype"}) =>
                  r.value.exactness = "Lax"

\* lax validate_int took an enum member that defines __float__ through the
\* float-convertible branch, which comes before the enum branch
C24_Witness ==
    /\ coerce_call.fn = "validate_int"
    /\ coerce_obj.cls = "Enum" /\ IsSome(coerce_obj.float_method)
    /\ IsSome(lax_out)
    /\ Unwrap(lax_out) = Ok(ValidationMatch_new(IntVal(2), "Lax"))

\* the conversion of the first branch of the lax coercion fn that matches the
\* input o by its type, for the inputs that none of the branches common to
\* strict and lax mode accepts; None when that branch converts nothing
BranchConversion(fn, o) ==
    LET is_text == is_instance_of(o, "str") \/ is_instance_of(o, "bytes")
        utf8 == o.val /= InvalidUtf8
    IN
    CASE fn = "validate_str" /\ (is_instance_of(o, "bytes") \/ is_instance_of(o, "bytearray")) ->
            Some(IF utf8 THEN Ok(o.val) ELSE ValError_new("StringUnicode", o))
      [] fn = "validate_bool" /\ is_text ->
            Some(IF utf8 THEN str_as_bool(o, o.val.text) ELSE ValError_new("BoolParsing", o))
      [] fn = "validate_bool" /\ ~is_text /\ is_instance_of(o, "int") /\ o.cls /= "bool" ->
            Some(int_as_bool(o, IntOf(o)))
      [] fn = "validate_bool" /\ ~is_text /\ ~is_instance_of(o, "int") /\ IsSome(extract_f64(o)) ->
            Some(LET int == float_as_int(o, Unwrap(extract_f64(o))) IN
                 IF int.tag = "Ok" THEN int_as_bool(o, int.value.int) ELSE int)
      [] fn = "validate_int" /\ is_text ->
            Some(IF utf8 THEN str_as_int(o, o.val.text) ELSE ValError_new("IntParsing", o))
      [] fn = "validate_int" /\ ~is_text /\ ~is_instance_of(o, "int") /\ IsSome(extract_f64(o)) ->
            Some(float_as_int(o, Unwrap(extract_f64(o))))
      [] fn = "validate_float" /\ is_text /\ ~is_exact_instance_of(o, "float") ->
            Some(IF utf8 THEN str_as_float(o, o.val.text) ELSE ValError_new("FloatParsing", o))
      [] fn = "validate_date" /\ is_text -> Some(bytes_as_date(o, o.val))
      [] fn = "validate_time" /\ is_text -> Some(bytes_as_time(o, o.val))
      [] fn = "validate_datetime" /\ is_text -> Some(bytes_as_datetime(o, o.val))
      [] fn = "validate_timedelta" /\ is_text -> Some(bytes_as_timedelta(o, o.val))
      [] OTHER -> None

\* C25: in a lax coercion, when the conversion of the branch that matched the
\* input by its type fails, that failure is the result: no later branch is
\* tried and the wrong-type error does not replace it
C25_ValueFailureTerminal ==
    LET conversion == BranchConversion(coerce_call.fn, coerce_obj) IN
    (IsSome(lax_out) /\ IsSome(conversion) /\ Unwrap(conversion).tag /= "Ok") =>
        Unwrap(lax_out) = Unwrap(conversion)

(***************************************************************************)
(* Further properties of ArgumentsValidator::validate.                     *)
(***************************************************************************)
\* the child validator invocations on which the child raised
Raised == { k \in 1..Len(calls) : ChildValidate(calls[k][1], calls[k][2]).tag = "InternalErr" }

\* C26: when a child validator fails with something that is no list of line
\* errors, validate returns that failure at once: the invocation is the last
\* one, the call is over, and its result is that failure and not the line
\* errors collected so far
C26_ImmediateFailure ==
    \A k \in Raised :
        /\ k = Len(calls)
        /\ pc = "done"
        /\ result = Some(ChildValidate(calls[k][1], calls[k][2]))

\* the child of a declared argument raised after a line error was collected
\* and while a keyword entry was still waiting for the keyword loop
C26_Witness ==
    /\ Raised /= {}
    /\ steps[Len(steps)][1] = "arguments"
    /\ errors /= <<>>
    /\ result = Some(InternalErr(PyRaiser.raises))
    /\ IsSome(Unwrap(args).kwargs)
    /\ \E k \in 1..Len(Unwrap(Unwrap(args).kwargs)) :
          LET key == Unwrap(Unwrap(args).kwargs)[k][1]
          IN  IsPyStr(key) /\ key.str \notin used_kwargs

\* the positional input value at index i went to a child validator: the one
\* of the declared argument i or the var-args validator
PassedToChild(i) ==
    \E k \in 1..Len(calls) :
        /\ calls[k][2] = InArgs[i + 1]
        /\ \/ i < Len(self.arguments) /\ Declared(i).positional
                /\ calls[k][1] = Declared(i).validator
           \/ IsSome(self.var_args_validator) /\ calls[k][1] = Unwrap(self.var_args_validator)

\* the positional input value at index i is covered by a recorded error
CoveredByError(i) ==
    \/ i < Len(self.arguments)
         /\ CountErrors("MultipleArgumentValues", <<LocS(Declared(i).name)>>) > 0
    \/ CountErrors("UnexpectedPositionalArgument", <<LocI(i)>>) > 0

\* C27: in a call that runs to its return, every positional input value is
\* passed to a child validator or covered by a MultipleArgumentValues or
\* UnexpectedPositionalArgument error
C27_NoPositionalDropped ==
    Returned => \A i \in 0..(Len(InArgs) - 1) : PassedToChild(i) \/ CoveredByError(i)

\* the call returned Ok(positional output, keyword output)
Succeeded == pc = "done" /\ IsCall /\ Unwrap(result).tag = "Ok"

\* C28: in a successful result the positional output at every index i below
\* the number of declared arguments holds the value produced for the declared
\* argument i, and no declared argument has a value in both outputs
C28_PositionalAligned ==
    Succeeded =>
        LET out == Unwrap(result).value IN
        /\ \A i \in DeclaredIndexes :
              i < Len(out.args) => out.args[i + 1] \in ProducedFor(i)
        /\ \A i \in DeclaredIndexes :
              ~ /\ \E k \in 1..Len(out.args) : out.args[k] \in ProducedFor(i)
                /\ Declared(i).name \in DOMAIN out.kwargs
                /\ out.kwargs[Declared(i).name] \in ProducedFor(i)

\* the value step 1 (the loop over the declared arguments) puts in the
\* keyword output for the declared argument i: its validated keyword value
\* or its default; None when it puts none there
KeywordOutputOf(i) ==
    IF ~IsSome(Declared(i).kwarg_key) \/ GivenPositional(i) THEN None
    ELSE IF GivenKeyword(i)
    THEN LET r == ChildValidate(Declared(i).validator, KeywordValue(i))
         IN  IF r.tag = "Ok" THEN Some(r.value) ELSE None
    ELSE IF IsSome(Declared(i).default) THEN Declared(i).default
    ELSE IF IsSome(Declared(i).default_factory)
    THEN Some(call0(Unwrap(Declared(i).default_factory)))
    ELSE None

\* C29: in a successful result the keyword output under the name of every
\* declared keyword-capable argument holds the value step 1 produced for
\* it; no var-kwargs entry overwrites it
C29_NoOverwrite ==
    Succeeded =>
        \A i \in DeclaredIndexes :
            IsSome(KeywordOutputOf(i)) =>
                /\ Declared(i).name \in DOMAIN Unwrap(result).value.kwargs
                /\ Unwrap(result).value.kwargs[Declared(i).name] = Unwrap(KeywordOutputOf(i))

\* the order of the loops of validate
LoopRank(p) ==
    CASE p = "start" -> 0
      [] p = "arguments" -> 1
      [] p = "var_args" -> 2
      [] p = "kwargs" -> 3
      [] p = "return" -> 4
      [] p = "done" -> 5

\* where the errors of the loop iteration the call is at are located: the
\* index or the name of the declared argument, the index of the surplus
\* positional value within the call, the key of the keyword entry
IterationLocs ==
    CASE pc = "arguments" -> {LocI(index), LocS(Declared(index).name)}
      [] pc = "var_args" -> {LocI(self.positional_args_count + index)}
      [] pc = "kwargs" -> {as_loc_item(InKwargs[index + 1][1])}

\* one loop iteration appends its errors to the list and hands over to the
\* next iteration in the order of the loops; the return hands the list back
C30_Step ==
    /\ pc \in {"arguments", "var_args", "kwargs"} =>
          LET added == SubSeq(errors', Len(errors) + 1, Len(errors'))
              child == ChildValidate(calls'[Len(calls')][1], calls'[Len(calls')][2])
          IN  /\ Len(errors') >= Len(errors)
              /\ SubSeq(errors', 1, Len(errors)) = errors
              /\ \A k \in 1..Len(added) : Head(added[k].loc) \in IterationLocs
              /\ (Len(calls') > Len(calls) /\ child.tag = "LineErrors") =>
                    [k \in 1..Len(added) |-> [added[k] EXCEPT !.loc = Tail(@)]] = child.errors
              /\ \/ LoopRank(pc') > LoopRank(pc)
                 \/ pc' = pc /\ index' = index + 1
    /\ (pc = "return" /\ errors /= <<>>) => result' = Some(LineErrors(errors))

\* C30: the error list validate returns is ordered: the errors of the
\* declared arguments in declaration order, each child's errors in their own
\* order, then the errors of the surplus positional values by increasing
\* index, then the errors of the keyword entries in the iteration order of
\* the input keyword mapping
C30_ErrorOrder == [][C30_Step]_vars

\* a call returned one error from each loop: a missing declared argument, a
\* surplus positional value and a keyword entry, in that order
C30_Witness ==
    /\ pc = "done"
    /\ Unwrap(result).tag = "LineErrors"
    /\ Len(Unwrap(result).errors) = 3
    /\ Unwrap(result).errors[1].kind = "MissingKeywordArgument"
    /\ Unwrap(result).errors[2].kind = "UnexpectedPositionalArgument"
    /\ Unwrap(result).errors[3].kind \in {"InvalidKey", "UnexpectedKeywordArgument"}
====
